---------------------------- MODULE Spec2Model ----------------------------
(***************************************************************************)
(* The prioritization engine of teamwork-linear-optimizer                  *)
(* (src/lib/prioritization.ts): prioritizeProjects and its three planners, *)
(* planProjectsSequential ("naive"), planProjectsNaive ("naive-deps") and  *)
(* planProjectsMIP ("optimized", a GLPK integer program with a fallback to *)
(* planProjectsNaive).                                                     *)
(*                                                                         *)
(* A state holds one input snapshot (projects, teams, dependencies) and    *)
(* the outcome of the last call of prioritizeProjects on it.               *)
(*                                                                         *)
(* The later sections model the graph utilities (topologicalSort,          *)
(* planProjectsBruteforce), the store (src/lib/store.ts) with the          *)
(* components that call it, and the debounced global view.                 *)
(***************************************************************************)
EXTENDS Integers, Sequences, FiniteSets, TLC

(***************************************************************************)
(* Bounds of the input space.                                              *)
(***************************************************************************)
MaxEffort == 2
MaxCapacity == 2
MaxDeps == 2

(***************************************************************************)
(* Input values.  effort and value are `number | null` (types.ts): <<>> is *)
(* null and <<n>> is the number n.                                         *)
(***************************************************************************)
Unset == <<>>
Undefined == "undefined"
\* null, where a string is expected (selectedTeamId, selectedProjectId)
Null == "null"

ProjectIds == <<"p1", "p2">>
TeamIds == <<"t1", "t2">>
TeamNames == {"A", "B"}
Modes == {"naive", "naive-deps", "optimized"}
UnknownModes == {"fastest"}

\* Unset, a negative effort, and the efforts up to the bound.
Efforts == {Unset} \cup {<<n>> : n \in (0 - 1)..MaxEffort}
\* Unset, zero, and two positive values that differ by less than the
\* solver's relative gap tolerance (0.5 %).
Values == {Unset, <<0>>, <<201>>, <<202>>}
Capacities == 0..MaxCapacity

Range(s) == {s[i] : i \in DOMAIN s}

\* Project[] with pairwise distinct ids, in the order of ProjectIds.  The
\* first project belongs to the first team: the other assignments are these
\* with the two teams exchanged.
ProjectLists ==
    {ps \in [1..Len(ProjectIds) ->
                [id : Range(ProjectIds), teamId : Range(TeamIds),
                 effort : Efforts, value : Values]] :
        /\ \A i \in 1..Len(ProjectIds) : ps[i].id = ProjectIds[i]
        /\ ps[1].teamId = TeamIds[1]}

\* Team[]: one team (the second team's projects then belong to no input
\* team), or two teams with distinct ids whose names may coincide.
TeamLists ==
    {<<[id |-> TeamIds[1], name |-> "A", capacity |-> c]>> : c \in Capacities}
    \cup
    {<<[id |-> TeamIds[1], name |-> "A", capacity |-> c1],
       [id |-> TeamIds[2], name |-> n2, capacity |-> c2]>> :
        c1 \in Capacities, c2 \in Capacities, n2 \in TeamNames}

\* Dependency edges between two different projects, numbered.
Edges ==
    <<[sourceId |-> ProjectIds[1], targetId |-> ProjectIds[2]],
      [sourceId |-> ProjectIds[2], targetId |-> ProjectIds[1]]>>

\* Dependency[]: at most MaxDeps edges, an edge possibly more than once,
\* listed in the order of Edges.
DependencyLists ==
    UNION {{[i \in 1..n |-> Edges[k[i]]] :
              k \in {f \in [1..n -> DOMAIN Edges] :
                        \A i \in 1..n, j \in 1..n : i <= j => f[i] <= f[j]}} :
           n \in 0..MaxDeps}

(***************************************************************************)
(* Sequence helpers.                                                       *)
(***************************************************************************)
RECURSIVE SumSeq(_)
SumSeq(s) == IF s = <<>> THEN 0 ELSE Head(s) + SumSeq(Tail(s))

\* Array.prototype.filter / map
Filter(s, Keep(_)) == SelectSeq(s, Keep)
Map(s, F(_)) == [i \in DOMAIN s |-> F(s[i])]

\* Array.prototype.sort (stable) with a comparator under which a comes
\* first exactly when Before(a, b): position = number of elements that
\* must precede.
StableSort(s, Before(_, _)) ==
    LET n == Len(s)
        Precedes(j, i) == \/ Before(s[j], s[i])
                          \/ (~Before(s[i], s[j]) /\ j < i)
        Rank(i) == Cardinality({j \in 1..n : j # i /\ Precedes(j, i)}) + 1
    IN  [k \in 1..n |-> s[CHOOSE i \in 1..n : Rank(i) = k]]

(***************************************************************************)
(* prioritizeProjects, lines 342-408: normalisation and the planners'      *)
(* input.                                                                  *)
(***************************************************************************)
\* Number(x) with NaN replaced by 0; Number(null) is 0.
ToNumber(x) == IF x = Unset THEN 0 ELSE x[1]

AllProjects(inputProjects) ==
    Map(inputProjects,
        LAMBDA p : [id |-> p.id, teamId |-> p.teamId,
                    effort |-> ToNumber(p.effort), value |-> ToNumber(p.value)])

CoercedTeams(inputTeams) ==
    Map(inputTeams,
        LAMBDA t : [id |-> t.id, name |-> t.name, capacity |-> t.capacity])

\* After the coercion no field is null any more: the two `!== null` tests
\* of the filter are always true.
IsValidProject(p) == p.effort >= 0 /\ p.value > 0

ValidProjects(inputProjects) == Filter(AllProjects(inputProjects), IsValidProject)

ActionableProjectIds(inputProjects) ==
    {p.id : p \in {q \in Range(AllProjects(inputProjects)) : q.effort >= 0}}

\* teams.forEach: a later team with the same key overwrites an earlier one.
LastWith(ts, Key(_), k) ==
    ts[CHOOSE i \in DOMAIN ts :
          /\ Key(ts[i]) = k
          /\ \A j \in DOMAIN ts : Key(ts[j]) = k => j <= i]

TeamCapacities(inputTeams) ==
    LET ts == CoercedTeams(inputTeams)
    IN  [n \in {ts[i].name : i \in DOMAIN ts} |->
            LastWith(ts, LAMBDA t : t.name, n).capacity]

TeamIdToName(inputTeams) ==
    LET ts == CoercedTeams(inputTeams)
    IN  [d \in {ts[i].id : i \in DOMAIN ts} |->
            LastWith(ts, LAMBDA t : t.id, d).name]

\* A variant that keeps every edge into the project, whatever its source.
ProjectDependencies_Unfiltered(project, inputProjects, deps) ==
    Map(Filter(deps, LAMBDA dep : dep.targetId = project.id),
        LAMBDA dep : dep.sourceId)

\* A variant that reads each edge backwards (the dependants of a project in
\* place of its prerequisites).
ProjectDependencies_Reversed(project, inputProjects, deps) ==
    Map(Filter(deps,
               LAMBDA dep : /\ dep.sourceId = project.id
                            /\ dep.targetId \in ActionableProjectIds(inputProjects)),
        LAMBDA dep : dep.targetId)

ProjectDependencies(project, inputProjects, deps) ==
    Map(Filter(deps,
               LAMBDA dep : /\ dep.targetId = project.id
                            /\ dep.sourceId \in ActionableProjectIds(inputProjects)),
        LAMBDA dep : dep.sourceId)

OptimizationProjects(inputProjects, inputTeams, deps) ==
    LET names == TeamIdToName(inputTeams)
    IN  Map(ValidProjects(inputProjects),
            LAMBDA project :
               [id |-> project.id,
                team |-> IF project.teamId \in DOMAIN names
                         THEN names[project.teamId] ELSE Undefined,
                value |-> project.value,
                effort |-> project.effort,
                dependencies |-> ProjectDependencies(project, inputProjects, deps)])

\* remainingCap[team] >= effort; an unknown team gives undefined >= effort,
\* which is false.
Fits(remainingCap, proj) ==
    proj.team \in DOMAIN remainingCap /\ remainingCap[proj.team] >= proj.effort

Charge(remainingCap, proj) ==
    [remainingCap EXCEPT ![proj.team] = @ - proj.effort]

(***************************************************************************)
(* planProjectsSequential, lines 312-334.                                  *)
(***************************************************************************)
RECURSIVE SequentialLoop(_, _, _)
SequentialLoop(sortedProjects, remainingCap, sequence) ==
    IF sortedProjects = <<>> THEN sequence
    ELSE LET project == Head(sortedProjects)
         IN  IF Fits(remainingCap, project)
             THEN SequentialLoop(Tail(sortedProjects),
                                 Charge(remainingCap, project),
                                 Append(sequence, project))
             ELSE SequentialLoop(Tail(sortedProjects), remainingCap, sequence)

ByValueDesc(a, b) == a.value > b.value

planProjectsSequential(teamCapacities, projects) ==
    LET sequence == SequentialLoop(StableSort(projects, ByValueDesc),
                                   teamCapacities, <<>>)
    IN  [sequence |-> Map(sequence, LAMBDA p : p.id),
         value |-> SumSeq(Map(sequence, LAMBDA p : p.value))]


(***************************************************************************)
(* planProjectsNaive, lines 160-222.                                       *)
(***************************************************************************)
RECURSIVE Concat(_)
Concat(ss) == IF ss = <<>> THEN <<>> ELSE Head(ss) \o Concat(Tail(ss))

\* The (project, dependency) pairs in the order of the two nested loops.
DependencyPairs(projects) ==
    Concat(Map(projects,
               LAMBDA proj : Map(proj.dependencies,
                                 LAMBDA dep : [id |-> proj.id, dep |-> dep])))

\* A variant that does not count a project's dependency on itself.
Indegree_WithoutSelfLoops(projects) ==
    [id \in {projects[i].id : i \in DOMAIN projects} |->
        Len(Filter((CHOOSE p \in Range(projects) : p.id = id).dependencies,
                   LAMBDA dep : dep # id))]

Indegree(projects) ==
    [id \in {projects[i].id : i \in DOMAIN projects} |->
        Len((CHOOSE p \in Range(projects) : p.id = id).dependencies)]

\* adjList[dep]?.push(proj.id): a dependency that is no planner project has
\* no list and the push is skipped.
AdjList(projects) ==
    [id \in {projects[i].id : i \in DOMAIN projects} |->
        Map(Filter(DependencyPairs(projects), LAMBDA e : e.dep = id),
            LAMBDA e : e.id)]

\* ratio(b) - ratio(a) < 0, with value / 0 = Infinity for the positive
\* values the planner gets and Infinity - Infinity = NaN read as a tie.
\* A variant that orders the frontier by value alone.
ByRatioDesc_ValueOnly(a, b) == a.value > b.value

ByRatioDesc(a, b) == a.value * b.effort > b.value * a.effort

\* Lines 210-217: the chosen project's dependents lose one open dependency
\* each; one that reaches zero is pushed to available.
RECURSIVE Unlock(_, _, _, _)
Unlock(neighbours, projects, indegree, available) ==
    IF neighbours = <<>> THEN [indegree |-> indegree, available |-> available]
    ELSE LET neighId == Head(neighbours)
             indeg == [indegree EXCEPT ![neighId] = @ - 1]
             neighborProj == CHOOSE p \in Range(projects) : p.id = neighId
         IN  Unlock(Tail(neighbours), projects, indeg,
                    IF indeg[neighId] = 0 THEN Append(available, neighborProj)
                                          ELSE available)

RECURSIVE NaiveLoop(_, _, _, _, _, _)
NaiveLoop(projects, remainingCap, indegree, available, resultSequence, totalValue) ==
    LET sorted == StableSort(available, ByRatioDesc)
        fitting == Filter(sorted, LAMBDA proj : Fits(remainingCap, proj))
    IN  IF fitting = <<>>
        THEN [sequence |-> resultSequence, value |-> totalValue]
        ELSE LET chosenProj == Head(fitting)
                 rest == Filter(sorted, LAMBDA p : p.id # chosenProj.id)
                 next == Unlock(AdjList(projects)[chosenProj.id], projects,
                                indegree, rest)
             IN  NaiveLoop(projects, Charge(remainingCap, chosenProj),
                           next.indegree, next.available,
                           Append(resultSequence, chosenProj.id),
                           totalValue + chosenProj.value)

\* A variant that starts with every project available, whatever its indegree.
InitiallyAvailable_All(projects) == projects

InitiallyAvailable(projects) ==
    Filter(projects, LAMBDA p : Indegree(projects)[p.id] = 0)

planProjectsNaive(teamCapacities, projects) ==
    NaiveLoop(projects, teamCapacities, Indegree(projects),
              InitiallyAvailable(projects), <<>>, 0)

(***************************************************************************)
(* planProjectsMIP, lines 224-310.  The solver (glpk.js) is not part of    *)
(* the repository: it is modelled by its contract.  It gets one binary     *)
(* column per planner project (objective, binaries), one row per entry of  *)
(* teamCapacities and one row per (project, dependency) pair, and answers  *)
(* with a status and a value per column.                                   *)
(*                                                                         *)
(* A dependency row may name a project that is no planner project (kept by *)
(* actionableProjectIds, dropped by validProjects).  Such a name is no     *)
(* declared variable.  Its column is not binary and keeps the bounds the   *)
(* solver gives a column by default: fixed at 0 (GLP_FX, a new column of   *)
(* the GLPK API) or bounded below by 0 (GLP_LO, a variable of the LP       *)
(* format).  A column bounded below only may be reported as exactly 1 or   *)
(* as any other value that satisfies its rows: ColumnValues stands for 0,  *)
(* exactly 1, and the other values.                                        *)
(***************************************************************************)
ColumnValues == {0, 1, 2}
\* mipgap: 0.005, in thousandths.
MipGapPerMille == 5

SolverStatuses == {"GLP_OPT", "GLP_FEAS", "GLP_NOFEAS", "GLP_UNDEF"}

RECURSIVE Dedup(_)
Dedup(s) ==
    IF s = <<>> THEN <<>>
    ELSE LET init == Dedup(SubSeq(s, 1, Len(s) - 1))
             last == s[Len(s)]
         IN  IF last \in Range(init) THEN init ELSE Append(init, last)

MipBinaries(projects) == Map(projects, LAMBDA proj : proj.id)

\* The columns in the order the model names them: the objective's
\* variables, then the other names of the dependency rows.
MipColumns(projects) ==
    Dedup(MipBinaries(projects) \o
          Map(DependencyPairs(projects), LAMBDA e : e.dep))

MipObjective(projects, x) ==
    SumSeq(Map(projects, LAMBDA proj : proj.value * x[proj.id]))

\* Step 3: sum of effort <= capacity, one row per team name.
MipCapacityRows(teamCapacities, projects, x) ==
    \A team \in DOMAIN teamCapacities :
        SumSeq(Map(Filter(projects, LAMBDA proj : proj.team = team),
                   LAMBDA proj : proj.effort * x[proj.id]))
            <= teamCapacities[team]

\* Step 4: x_proj - x_dep <= 0.
MipDependencyRows(projects, x) ==
    \A e \in Range(DependencyPairs(projects)) : x[e.id] - x[e.dep] <= 0

DefaultBounds == {"GLP_FX", "GLP_LO"}

MipFeasible(teamCapacities, projects, bounds) ==
    {x \in [Range(MipColumns(projects)) -> ColumnValues] :
        /\ \A c \in DOMAIN x :
              IF c \in Range(MipBinaries(projects)) THEN x[c] \in {0, 1}
              ELSE bounds = "GLP_FX" => x[c] = 0
        /\ MipCapacityRows(teamCapacities, projects, x)
        /\ MipDependencyRows(projects, x)}

MipBest(projects, feasible) ==
    CHOOSE z \in {MipObjective(projects, x) : x \in feasible} :
        \A x \in feasible : MipObjective(projects, x) <= z

\* relative gap (best - z) / z <= mipgap
WithinGap(z, best) == 1000 * (best - z) <= MipGapPerMille * z

\* What glpk.solve may return.  GLP_OPT: an optimal solution.  GLP_FEAS: an
\* integer feasible solution the search stopped at, within the relative mip
\* gap of the optimum.  GLP_NOFEAS: the rows admit no solution.  GLP_UNDEF:
\* the solver gave up without a solution.
SolverResultsUnder(teamCapacities, projects, bounds) ==
    LET feasible == MipFeasible(teamCapacities, projects, bounds)
    IN  IF feasible = {}
        THEN {[status |-> "GLP_NOFEAS", vars |-> <<>>, z |-> 0]}
        ELSE LET best == MipBest(projects, feasible)
             IN  {[status |-> "GLP_OPT", vars |-> x, z |-> best] :
                     x \in {y \in feasible : MipObjective(projects, y) = best}}
                 \cup
                 {[status |-> "GLP_FEAS", vars |-> x,
                   z |-> MipObjective(projects, x)] :
                     x \in {y \in feasible :
                               WithinGap(MipObjective(projects, y), best)}}
                 \cup
                 {[status |-> "GLP_UNDEF", vars |-> <<>>, z |-> 0]}

SolverResults(teamCapacities, projects) ==
    UNION {SolverResultsUnder(teamCapacities, projects, bounds) :
              bounds \in DefaultBounds}

\* A variant whose fallback is the value-ordered planner of naive mode.
planProjectsMIP_FallbackSequential(teamCapacities, projects, solved) ==
    IF solved.status = "GLP_OPT" \/ solved.status = "GLP_FEAS"
    THEN [sequence |-> Filter(MipColumns(projects),
                              LAMBDA projId : solved.vars[projId] = 1),
          value |-> solved.z]
    ELSE planProjectsSequential(teamCapacities, projects)

\* Lines 281-309, given the solver's answer.
planProjectsMIP(teamCapacities, projects, solved) ==
    IF solved.status = "GLP_OPT" \/ solved.status = "GLP_FEAS"
    THEN [sequence |-> Filter(MipColumns(projects),
                              LAMBDA projId : solved.vars[projId] = 1),
          value |-> solved.z]
    ELSE planProjectsNaive(teamCapacities, projects)

(***************************************************************************)
(* prioritizeProjects, lines 410-470: dispatch and reassembly.             *)
(***************************************************************************)
\* default: throw new Error(`Unknown mode: ${mode}`)
Thrown == [error |-> "Unknown mode"]
IsThrown(r) == "error" \in DOMAIN r

\* A variant whose default case runs the planner of naive mode.
RunPlanner_DefaultNaive(mode, teamCapacities, projects, solved) ==
    CASE mode = "naive-deps" -> planProjectsNaive(teamCapacities, projects)
      [] mode = "optimized" -> planProjectsMIP(teamCapacities, projects, solved)
      [] OTHER -> planProjectsSequential(teamCapacities, projects)

RunPlanner(mode, teamCapacities, projects, solved) ==
    CASE mode = "naive" -> planProjectsSequential(teamCapacities, projects)
      [] mode = "naive-deps" -> planProjectsNaive(teamCapacities, projects)
      [] mode = "optimized" -> planProjectsMIP(teamCapacities, projects, solved)
      [] OTHER -> Thrown

\* result.sequence.forEach: allProjects.find(id), pushed when found.
SelectedProjects(allProjects, sequence) ==
    Map(Filter(sequence,
               LAMBDA projectId : \E p \in Range(allProjects) : p.id = projectId),
        LAMBDA projectId :
            allProjects[CHOOSE i \in DOMAIN allProjects :
                            /\ allProjects[i].id = projectId
                            /\ \A j \in 1..(i - 1) : allProjects[j].id # projectId])

\* A variant that lists every project as unselected.
UnselectedProjects_All(allProjects, sequence) == allProjects

UnselectedProjects(allProjects, sequence) ==
    Filter(allProjects, LAMBDA project : project.id \notin Range(sequence))

\* A variant that charges every selected project to every team.
TeamSummaries_AllToEveryTeam(teams, selectedProjects) ==
    [teamId \in {teams[i].id : i \in DOMAIN teams} |->
        [allocated |-> SumSeq(Map(selectedProjects, LAMBDA project : project.effort)),
         value |-> SumSeq(Map(selectedProjects, LAMBDA project : project.value))]]

TeamSummaries(teams, selectedProjects) ==
    [teamId \in {teams[i].id : i \in DOMAIN teams} |->
        LET own == Filter(selectedProjects, LAMBDA project : project.teamId = teamId)
        IN  [allocated |-> SumSeq(Map(own, LAMBDA project : project.effort)),
             value |-> SumSeq(Map(own, LAMBDA project : project.value))]]

prioritizeProjects(mode, inputProjects, inputTeams, deps, solved) ==
    LET allProjects == AllProjects(inputProjects)
        planned == RunPlanner(mode, TeamCapacities(inputTeams),
                              OptimizationProjects(inputProjects, inputTeams, deps),
                              solved)
        selectedProjects == SelectedProjects(allProjects, planned.sequence)
    IN  IF IsThrown(planned) THEN planned
        ELSE [selectedProjects |-> selectedProjects,
              unselectedProjects |-> UnselectedProjects(allProjects, planned.sequence),
              teamSummaries |-> TeamSummaries(CoercedTeams(inputTeams), selectedProjects)]

(***************************************************************************)
(* The state machine: an input snapshot and calls of prioritizeProjects.   *)
(***************************************************************************)
VARIABLES
    projects,       \* inputProjects
    teams,          \* inputTeams
    dependencies,   \* dependencies
    mode,           \* the mode of the last call, "none" before the first
    status,         \* the solver's status in the last call, "none" without solve
    result,         \* the PrioritizationResult of the last call
    selectedTeamId,     \* store.ts: selectedTeamId, Null or a team id
    selectedProjectId,  \* store.ts: selectedProjectId, Null or a project id
    showGlobalView,     \* store.ts: showGlobalView
    initialized,        \* store.ts: initialized
    debouncedInputs,    \* GlobalView: <<>> while the view is not mounted,
                        \* else <<the debouncedInputs state>>
    handler             \* GlobalView: <<>> without a pending timeout, else
                        \* <<the props the pending timeout has captured>>

\* The store's fields next to teams, projects and dependencies, and the
\* state of the global view.
views == <<selectedTeamId, selectedProjectId, showGlobalView, initialized,
           debouncedInputs, handler>>

vars == <<projects, teams, dependencies, mode, status, result, views>>

\* store.ts lines 57-60, and no view mounted.
InitViews ==
    /\ selectedTeamId = Null
    /\ selectedProjectId = Null
    /\ showGlobalView = FALSE
    /\ initialized = FALSE
    /\ debouncedInputs = <<>>
    /\ handler = <<>>

NoSolve == [status |-> "none", vars |-> <<>>, z |-> 0]
NoResult == [selectedProjects |-> <<>>, unselectedProjects |-> <<>>,
             teamSummaries |-> <<>>]

Init ==
    /\ projects \in ProjectLists
    /\ teams \in TeamLists
    /\ dependencies \in DependencyLists
    /\ mode = "none"
    /\ status = "none"
    /\ result = NoResult
    /\ InitViews

PrioritizeNaive ==
    /\ mode = "none"
    /\ mode' = "naive"
    /\ status' = "none"
    /\ result' = prioritizeProjects("naive", projects, teams, dependencies, NoSolve)
    /\ UNCHANGED <<projects, teams, dependencies, views>>

PrioritizeNaiveDeps ==
    /\ mode = "none"
    /\ mode' = "naive-deps"
    /\ status' = "none"
    /\ result' = prioritizeProjects("naive-deps", projects, teams, dependencies, NoSolve)
    /\ UNCHANGED <<projects, teams, dependencies, views>>

PrioritizeOptimized ==
    /\ mode = "none"
    /\ \E solved \in SolverResults(TeamCapacities(teams),
                                OptimizationProjects(projects, teams, dependencies)) :
        /\ mode' = "optimized"
        /\ status' = solved.status
        /\ result' = prioritizeProjects("optimized", projects, teams, dependencies, solved)
        /\ UNCHANGED <<projects, teams, dependencies, views>>

\* A call whose mode is none of the three (possible at run time, where the
\* type of the parameter is not checked).
PrioritizeUnknownMode ==
    /\ mode = "none"
    /\ \E m \in UnknownModes :
        /\ mode' = m
        /\ status' = "none"
        /\ result' = prioritizeProjects(m, projects, teams, dependencies, NoSolve)
        /\ UNCHANGED <<projects, teams, dependencies, views>>

Next ==
    \/ PrioritizeNaive
    \/ PrioritizeNaiveDeps
    \/ PrioritizeOptimized
    \/ PrioritizeUnknownMode

Spec == Init /\ [][Next]_vars

(***************************************************************************)
(* Vocabulary of the properties, in the terms of the specification.        *)
(***************************************************************************)
\* The last call returned a result.
Returned == mode \in Modes

\* Actionable: effort set and >= 0, value set and > 0.
IsActionable(p) ==
    /\ p.effort # Unset /\ p.effort[1] >= 0
    /\ p.value # Unset /\ p.value[1] > 0

InputIds == {projects[i].id : i \in DOMAIN projects}
InputProject(id) == CHOOSE p \in Range(projects) : p.id = id
ActionableIds == {p.id : p \in {q \in Range(projects) : IsActionable(q)}}

Ids(ps) == [i \in DOMAIN ps |-> ps[i].id]
SelectedIds == Range(Ids(result.selectedProjects))
UnselectedIds == Range(Ids(result.unselectedProjects))

DistinctTeamNames ==
    \A i \in DOMAIN teams, j \in DOMAIN teams : i # j => teams[i].name # teams[j].name

\* The efforts (values) of the selected projects of a team, summed.
SelectedOf(teamId) ==
    Filter(result.selectedProjects, LAMBDA p : p.teamId = teamId)
EffortOf(teamId) == SumSeq(Map(SelectedOf(teamId), LAMBDA p : p.effort))
ValueOf(teamId) == SumSeq(Map(SelectedOf(teamId), LAMBDA p : p.value))

NoRepeat(s) == \A i \in DOMAIN s, j \in DOMAIN s : i # j => s[i] # s[j]

(***************************************************************************)
(* C1.  For every mode and every input with pairwise distinct team ids and *)
(* names and non-negative capacities, teamSummaries[t.id].allocated, the   *)
(* summed effort of the selected projects of team t, is at most            *)
(* t.capacity.                                                             *)
(***************************************************************************)
C1_CapacityNeverExceeded ==
    (Returned /\ DistinctTeamNames) =>
        \A i \in DOMAIN teams :
            /\ result.teamSummaries[teams[i].id].allocated = EffortOf(teams[i].id)
            /\ result.teamSummaries[teams[i].id].allocated <= teams[i].capacity

\* The same, outside optimized mode runs whose solver returned a solution.
C1_CapacityWithoutSolver ==
    (Returned /\ DistinctTeamNames /\ status \notin {"GLP_OPT", "GLP_FEAS"}) =>
        \A i \in DOMAIN teams :
            result.teamSummaries[teams[i].id].allocated <= teams[i].capacity

(***************************************************************************)
(* C2.  In modes naive-deps and optimized, for every dependency edge       *)
(* (s -> t) of the input whose two ends are actionable input projects, if  *)
(* t is selected then s is selected.                                       *)
(***************************************************************************)
C2_SelectedHasPrerequisites ==
    (Returned /\ mode \in {"naive-deps", "optimized"}) =>
        \A k \in DOMAIN dependencies :
            LET dep == dependencies[k]
            IN  (/\ dep.sourceId \in ActionableIds
                 /\ dep.targetId \in ActionableIds
                 /\ dep.targetId \in SelectedIds) => dep.sourceId \in SelectedIds

C2_Witness ==
    /\ mode = "optimized"
    /\ status = "GLP_OPT"
    /\ \E k \in DOMAIN dependencies :
          /\ dependencies[k].sourceId \in ActionableIds
          /\ dependencies[k].targetId \in ActionableIds
          /\ dependencies[k].targetId \in SelectedIds
          /\ InputProject(dependencies[k].sourceId).effort[1] > 0

(***************************************************************************)
(* C3.  For every mode and every input with pairwise distinct project ids, *)
(* selectedProjects and unselectedProjects share no id, neither lists an   *)
(* id twice, and together they list exactly the input project ids.         *)
(***************************************************************************)
C3_SelectedUnselectedPartition ==
    Returned =>
        /\ SelectedIds \cap UnselectedIds = {}
        /\ NoRepeat(Ids(result.selectedProjects))
        /\ NoRepeat(Ids(result.unselectedProjects))
        /\ SelectedIds \cup UnselectedIds = InputIds

C3_Witness ==
    /\ Returned
    /\ SelectedIds # {}
    /\ UnselectedIds # {}

(***************************************************************************)
(* C4.  In every mode, an input project whose effort is unset, or whose    *)
(* value is unset or <= 0, never appears in selectedProjects.              *)
(***************************************************************************)
C4_UnactionableNeverSelected ==
    Returned => \A id \in SelectedIds : IsActionable(InputProject(id))

\* The part of C4 the code keeps outside the solver: a project without a
\* positive value is not selected by the two greedy planners.
C4_NoValueNeverSelectedGreedy ==
    (Returned /\ status \notin {"GLP_OPT", "GLP_FEAS"}) =>
        \A id \in SelectedIds : ToNumber(InputProject(id).value) > 0

(***************************************************************************)
(* Reference notions of the planners' contract, over the input as given:   *)
(* capacity per team id, the edges between actionable projects, the        *)
(* value/effort ratio.                                                     *)
(***************************************************************************)
TeamKnown(teamId) == \E i \in DOMAIN teams : teams[i].id = teamId
CapacityOf(teamId) == (CHOOSE t \in Range(teams) : t.id = teamId).capacity

\* The capacity a team has left once the projects `taken` (ids) are charged.
RemainingAfter(teamId, taken) ==
    CapacityOf(teamId)
      - SumSeq(Map(Filter(projects,
                          LAMBDA p : p.id \in taken /\ p.teamId = teamId),
                   LAMBDA p : ToNumber(p.effort)))

FitsAfter(id, taken) ==
    LET p == InputProject(id)
    IN  TeamKnown(p.teamId)
          /\ ToNumber(p.effort) <= RemainingAfter(p.teamId, taken)

\* The prerequisites of a project that count: sources of its edges that are
\* actionable.
ActionablePrerequisites(id) ==
    {dependencies[k].sourceId : k \in {j \in DOMAIN dependencies :
        /\ dependencies[j].targetId = id
        /\ dependencies[j].sourceId \in ActionableIds}}

AllPrerequisites(id) ==
    {dependencies[k].sourceId : k \in {j \in DOMAIN dependencies :
        dependencies[j].targetId = id}}

Frontier(taken) ==
    {id \in ActionableIds \ taken : ActionablePrerequisites(id) \subseteq taken}

\* value(a) / effort(a) >= value(b) / effort(b), for positive values.
RatioAtLeast(a, b) ==
    ToNumber(InputProject(a).value) * ToNumber(InputProject(b).effort)
        >= ToNumber(InputProject(b).value) * ToNumber(InputProject(a).effort)

Prefix(s, k) == {s[i] : i \in 1..(k - 1)}
PositionIn(s, x) == CHOOSE i \in DOMAIN s : s[i] = x

\* Inputs on which the code's filter and the specification's notion of an
\* actionable project agree: no project has a positive value and no effort,
\* and no edge leaves a project that is not actionable.
ActionabilityAgrees ==
    /\ \A p \in Range(projects) : IsValidProject(
            [effort |-> ToNumber(p.effort), value |-> ToNumber(p.value)])
                => IsActionable(p)
    /\ \A k \in DOMAIN dependencies : dependencies[k].sourceId \in ActionableIds

(***************************************************************************)
(* C5.  In naive-deps mode an edge whose source is an unactionable input   *)
(* project never blocks its target: an actionable project whose only       *)
(* prerequisites are unactionable and whose effort fits its team's         *)
(* capacity is selected as if it had no prerequisites.                     *)
(***************************************************************************)
C5_UnactionableSourceNeverBlocks ==
    (mode = "naive-deps" /\ DistinctTeamNames) =>
        \A id \in ActionableIds :
            (/\ AllPrerequisites(id) # {}
             /\ AllPrerequisites(id) \cap ActionableIds = {}
             /\ FitsAfter(id, {})
             /\ \A other \in ActionableIds \ {id} : FitsAfter(id, {other}))
                => id \in SelectedIds

(***************************************************************************)
(* C6.  In optimized mode, when the solver reports an optimal or feasible  *)
(* status, the selected set respects every team's capacity and every edge  *)
(* between actionable projects, and its total value is at least that of    *)
(* every set of actionable projects that respects the same constraints.    *)
(***************************************************************************)
Admissible(S) ==
    /\ \A i \in DOMAIN teams : RemainingAfter(teams[i].id, S) >= 0
    /\ \A id \in S : TeamKnown(InputProject(id).teamId)
    /\ \A id \in S : ActionablePrerequisites(id) \subseteq S

TotalValue(S) ==
    SumSeq(Map(Filter(projects, LAMBDA p : p.id \in S),
               LAMBDA p : ToNumber(p.value)))

C6_OptimizedIsOptimal ==
    (/\ mode = "optimized"
     /\ status \in {"GLP_OPT", "GLP_FEAS"}
     /\ DistinctTeamNames) =>
        /\ \A i \in DOMAIN teams : EffortOf(teams[i].id) <= teams[i].capacity
        /\ \A id \in SelectedIds \cap ActionableIds :
              ActionablePrerequisites(id) \subseteq SelectedIds
        /\ \A S \in SUBSET ActionableIds :
              Admissible(S) => TotalValue(SelectedIds) >= TotalValue(S)

\* What remains of C6 where the code's filter agrees with the
\* specification and the solver proved optimality.
C6_OptimalWhereActionabilityAgrees ==
    (/\ mode = "optimized"
     /\ status = "GLP_OPT"
     /\ DistinctTeamNames
     /\ \A p \in Range(projects) : TeamKnown(p.teamId)
     /\ ActionabilityAgrees) =>
        /\ Admissible(SelectedIds)
        /\ \A S \in SUBSET ActionableIds :
              Admissible(S) => TotalValue(SelectedIds) >= TotalValue(S)

(***************************************************************************)
(* C7.  In optimized mode, when the solver's status is neither optimal nor *)
(* feasible, prioritizeProjects returns exactly what naive-deps mode       *)
(* returns for the same projects, teams and dependencies.                  *)
(***************************************************************************)
C7_FallbackEqualsNaiveDeps ==
    (mode = "optimized" /\ status \notin {"GLP_OPT", "GLP_FEAS"}) =>
        result = prioritizeProjects("naive-deps", projects, teams,
                                    dependencies, NoSolve)

C7_Witness ==
    /\ mode = "optimized"
    /\ status = "GLP_UNDEF"
    /\ Len(result.selectedProjects) = 1
    /\ Len(result.unselectedProjects) = 1
    /\ IsActionable(InputProject(result.unselectedProjects[1].id))

(***************************************************************************)
(* C8.  In naive mode selectedProjects is exactly the sequence obtained by *)
(* visiting the actionable projects by descending value (equal values in   *)
(* input order) and taking a project if and only if its effort is at most  *)
(* what its team has left; the output is in visiting order.                *)
(***************************************************************************)
HigherValue(a, b) == ToNumber(a.value) > ToNumber(b.value)

RECURSIVE Visit(_, _)
Visit(order, taken) ==
    IF order = <<>> THEN taken
    ELSE Visit(Tail(order),
               IF FitsAfter(Head(order).id, Range(taken))
               THEN Append(taken, Head(order).id) ELSE taken)

VisitingSequence(candidates) == Visit(StableSort(candidates, HigherValue), <<>>)

C8_NaiveIsGreedyByValue ==
    (mode = "naive" /\ DistinctTeamNames) =>
        Ids(result.selectedProjects)
            = VisitingSequence(Filter(projects, IsActionable))

\* C8 where the code's filter agrees with the specification's notion of an
\* actionable project.
C8_GreedyByValueWhereActionabilityAgrees ==
    (mode = "naive" /\ DistinctTeamNames /\ ActionabilityAgrees) =>
        Ids(result.selectedProjects)
            = VisitingSequence(Filter(projects, IsActionable))

(***************************************************************************)
(* C9.  In naive-deps mode every selection step picks, among the frontier  *)
(* projects (actionable, not yet selected, all retained prerequisites      *)
(* selected) that fit their team's remaining capacity, one of maximal      *)
(* value/effort ratio; when the planner stops, no frontier project fits.   *)
(***************************************************************************)
StepsAreGreedy(sequence) ==
    /\ \A k \in DOMAIN sequence :
          LET taken == Prefix(sequence, k)
          IN  /\ sequence[k] \in Frontier(taken)
              /\ FitsAfter(sequence[k], taken)
              /\ \A other \in Frontier(taken) :
                    FitsAfter(other, taken) => RatioAtLeast(sequence[k], other)
    /\ \A other \in Frontier(Range(sequence)) : ~FitsAfter(other, Range(sequence))

C9_NaiveDepsPicksBestRatio ==
    (mode = "naive-deps" /\ DistinctTeamNames) =>
        StepsAreGreedy(Ids(result.selectedProjects))

\* C9 where the code's filter agrees with the specification's notion of an
\* actionable project.
C9_BestRatioWhereActionabilityAgrees ==
    (mode = "naive-deps" /\ DistinctTeamNames /\ ActionabilityAgrees) =>
        StepsAreGreedy(Ids(result.selectedProjects))

(***************************************************************************)
(* C10.  In naive-deps mode the order of selectedProjects respects         *)
(* precedence: for every retained dependency edge (s -> t), one whose      *)
(* source is actionable, with t selected, s stands before t in             *)
(* selectedProjects.                                                       *)
(***************************************************************************)
C10_PrerequisiteComesFirst ==
    mode = "naive-deps" =>
        \A k \in DOMAIN dependencies :
            LET dep == dependencies[k]
                sequence == Ids(result.selectedProjects)
            IN  (dep.sourceId \in ActionableIds /\ dep.targetId \in SelectedIds) =>
                    /\ dep.sourceId \in SelectedIds
                    /\ PositionIn(sequence, dep.sourceId)
                          < PositionIn(sequence, dep.targetId)

\* P1 before P2 although P2, which depends on P1, has the higher ratio.
C10_Witness ==
    /\ mode = "naive-deps"
    /\ \E k \in DOMAIN dependencies :
          /\ dependencies[k].targetId \in SelectedIds \cap ActionableIds
          /\ dependencies[k].sourceId \in SelectedIds \cap ActionableIds
          /\ ~RatioAtLeast(dependencies[k].sourceId, dependencies[k].targetId)

(***************************************************************************)
(* C11.  In naive-deps mode a project with effort 0 and value > 0 is       *)
(* always selected first: it stands in selectedProjects before every       *)
(* selected project with positive effort.                                  *)
(***************************************************************************)
ZeroEffortIds ==
    {id \in ActionableIds : InputProject(id).effort = <<0>>}

PositiveEffortIds ==
    {id \in InputIds : ToNumber(InputProject(id).effort) > 0}

StandsBeforePositiveEffort(id) ==
    /\ id \in SelectedIds
    /\ \A other \in SelectedIds \cap PositiveEffortIds :
          PositionIn(Ids(result.selectedProjects), id)
              < PositionIn(Ids(result.selectedProjects), other)

C11_ZeroEffortSelectedFirst ==
    mode = "naive-deps" =>
        \A id \in ZeroEffortIds : StandsBeforePositiveEffort(id)

(***************************************************************************)
(* C11, amended.  In naive-deps mode a project with effort 0 and value > 0 *)
(* that belongs to an input team and is the target of no dependency edge   *)
(* is selected, and stands in selectedProjects before every selected       *)
(* project with positive effort.                                           *)
(***************************************************************************)
C11_FreeZeroEffortSelectedFirst ==
    mode = "naive-deps" =>
        \A id \in ZeroEffortIds :
            (TeamKnown(InputProject(id).teamId) /\ AllPrerequisites(id) = {})
                => StandsBeforePositiveEffort(id)

\* The zero-effort project is second in the input and has the lower value,
\* and stands first in the output.
C11_Witness ==
    /\ mode = "naive-deps"
    /\ projects[2].id \in ZeroEffortIds
    /\ AllPrerequisites(projects[2].id) = {}
    /\ projects[1].id \in SelectedIds \cap PositiveEffortIds
    /\ ToNumber(projects[1].value) > ToNumber(projects[2].value)
    /\ Ids(result.selectedProjects) = <<projects[2].id, projects[1].id>>

(***************************************************************************)
(* C12.  For every mode and input, teamSummaries has exactly one entry per *)
(* input team id, and the entry of team t is {allocated: sum of effort,    *)
(* value: sum of value} over the selected projects whose teamId is t; when *)
(* nothing is selected every entry is {allocated: 0, value: 0}.            *)
(***************************************************************************)
\* The input projects of a team that were selected.
SelectedInputOf(teamId) ==
    Filter(projects, LAMBDA p : p.id \in SelectedIds /\ p.teamId = teamId)

C12_TeamSummariesAreSums ==
    Returned =>
        /\ DOMAIN result.teamSummaries = {teams[i].id : i \in DOMAIN teams}
        /\ \A i \in DOMAIN teams :
              result.teamSummaries[teams[i].id]
                = [allocated |-> SumSeq(Map(SelectedInputOf(teams[i].id),
                                            LAMBDA p : ToNumber(p.effort))),
                   value |-> SumSeq(Map(SelectedInputOf(teams[i].id),
                                        LAMBDA p : ToNumber(p.value)))]
        /\ result.selectedProjects = <<>> =>
              \A i \in DOMAIN teams :
                  result.teamSummaries[teams[i].id] = [allocated |-> 0, value |-> 0]

\* Two teams, one with a selected project of positive effort, one with none.
C12_Witness ==
    /\ Returned
    /\ Len(teams) = 2
    /\ result.teamSummaries[teams[1].id].allocated > 0
    /\ result.teamSummaries[teams[2].id] = [allocated |-> 0, value |-> 0]
    /\ Len(result.selectedProjects) = 1

(***************************************************************************)
(* C13.  Every project returned in selectedProjects or unselectedProjects  *)
(* carries the effort and value of the input project with that id,         *)
(* including null where the input's effort or value is unset.              *)
(***************************************************************************)
\* A returned effort or value is always a number (lines 343-349): it equals
\* the input's when the input is set to that number, and never when the
\* input is null.
SameAsInput(returned, input) == input # Unset /\ returned = input[1]

ReturnedProjects == result.selectedProjects \o result.unselectedProjects

C13_ReturnedProjectsKeepInput ==
    Returned =>
        \A r \in Range(ReturnedProjects) :
            /\ SameAsInput(r.effort, InputProject(r.id).effort)
            /\ SameAsInput(r.value, InputProject(r.id).value)

\* What the code keeps of C13: a returned project carries the input's
\* effort and value with null replaced by 0.
C13_ReturnedProjectsAreCoerced ==
    Returned =>
        \A r \in Range(ReturnedProjects) :
            /\ r.effort = ToNumber(InputProject(r.id).effort)
            /\ r.value = ToNumber(InputProject(r.id).value)
            /\ r.teamId = InputProject(r.id).teamId

(***************************************************************************)
(* C14.  For every mode and input, adding to the dependency list a         *)
(* duplicate of an edge already present, or an edge whose sourceId or      *)
(* targetId names no input project, leaves the result unchanged: the same  *)
(* selectedProjects in the same order, unselectedProjects and              *)
(* teamSummaries.  In optimized mode the result depends on the solver's    *)
(* answer, and it is the set of possible results that is unchanged.        *)
(***************************************************************************)
\* An id that names no input project.
NoProjectId == "p0"

DanglingEdges ==
    {[sourceId |-> NoProjectId, targetId |-> id] : id \in InputIds}
        \cup {[sourceId |-> id, targetId |-> NoProjectId] : id \in InputIds}
        \cup {[sourceId |-> NoProjectId, targetId |-> NoProjectId]}

\* The results a call may return, over the answers the solver may give.
Outcomes(m, deps) ==
    IF m = "optimized"
    THEN {prioritizeProjects(m, projects, teams, deps, solved) :
            solved \in SolverResults(TeamCapacities(teams),
                                     OptimizationProjects(projects, teams, deps))}
    ELSE {prioritizeProjects(m, projects, teams, deps, NoSolve)}

\* The same machine, named apart for the properties that relate several
\* calls on one input and compute those calls in every state before the call.
SpecRelational == Init /\ [][Next]_vars

C14_IgnorableEdgesChangeNothing ==
    mode = "none" =>
        \A m \in Modes :
            LET unchanged == Outcomes(m, dependencies)
            IN  \A e \in Range(dependencies) \cup DanglingEdges :
                    Outcomes(m, Append(dependencies, e)) = unchanged

\* An input with an edge between two projects that naive-deps mode selects
\* with a second copy of the edge added, which would block the target if
\* the copy counted twice.
C14_Witness ==
    /\ mode = "none"
    /\ \E e \in Range(dependencies) :
          \E r \in Outcomes("naive-deps", Append(dependencies, e)) :
              /\ {e.sourceId, e.targetId} \subseteq ActionableIds
              /\ {e.sourceId, e.targetId} \subseteq Range(Ids(r.selectedProjects))

(***************************************************************************)
(* C15.  When two input teams with different ids share a name, each team   *)
(* is charged for its own projects against its own capacity: in every      *)
(* mode the summed effort of a team's selected projects is at most that    *)
(* team's capacity.                                                        *)
(***************************************************************************)
C15_SameNameTeamsKeepOwnCapacity ==
    (Returned /\ ~DistinctTeamNames) =>
        \A i \in DOMAIN teams : EffortOf(teams[i].id) <= teams[i].capacity

\* What the code keeps of C15 outside the solver: the teams of one name
\* together stay within the capacity of the last of them.
C15_SameNameTeamsShareLastCapacity ==
    (Returned /\ ~DistinctTeamNames /\ status \notin {"GLP_OPT", "GLP_FEAS"}) =>
        SumSeq(Map(result.selectedProjects, LAMBDA p : p.effort))
            <= teams[Len(teams)].capacity

(***************************************************************************)
(* C17.  A call of prioritizeProjects with a mode other than naive,        *)
(* naive-deps or optimized fails with an error and returns no result, for  *)
(* every projects, teams and dependencies.                                 *)
(***************************************************************************)
C17_UnknownModeFails ==
    (mode # "none" /\ mode \notin Modes) =>
        /\ result = Thrown
        /\ "selectedProjects" \notin DOMAIN result

\* Such a call on an input on which naive mode selects a project.
C17_Witness ==
    /\ mode \in UnknownModes
    /\ \E r \in Outcomes("naive", dependencies) : r.selectedProjects # <<>>

(***************************************************************************)
(* Inputs with dependency cycles, for the two greedy planners: three       *)
(* projects of one team, with or without a usable effort and value, and    *)
(* up to MaxDeps + 1 edges between any two of them, self-loops included.   *)
(***************************************************************************)
CycleProjectIds == <<"p1", "p2", "p3">>

CycleProjectLists ==
    {ps \in [DOMAIN CycleProjectIds ->
                [id : Range(CycleProjectIds), teamId : {TeamIds[1]},
                 effort : {<<0 - 1>>, <<0>>, <<1>>}, value : {<<0>>, <<201>>}]] :
        \A i \in DOMAIN CycleProjectIds : ps[i].id = CycleProjectIds[i]}

CycleTeamLists ==
    {<<[id |-> TeamIds[1], name |-> "A", capacity |-> c]>> : c \in Capacities}

\* Edge number k of the nine, in the order (p1,p1), (p1,p2), ..., (p3,p3).
CycleEdgeCount == Len(CycleProjectIds) * Len(CycleProjectIds)
CycleEdge(k) ==
    [sourceId |-> CycleProjectIds[((k - 1) \div Len(CycleProjectIds)) + 1],
     targetId |-> CycleProjectIds[((k - 1) % Len(CycleProjectIds)) + 1]]

CycleDependencyLists ==
    UNION {{[i \in 1..n |-> CycleEdge(k[i])] :
              k \in {f \in [1..n -> 1..CycleEdgeCount] :
                        \A i \in 1..n, j \in 1..n : i < j => f[i] < f[j]}} :
           n \in 0..(MaxDeps + 1)}

InitCycles ==
    /\ projects \in CycleProjectLists
    /\ teams \in CycleTeamLists
    /\ dependencies \in CycleDependencyLists
    /\ mode = "none"
    /\ status = "none"
    /\ result = NoResult
    /\ InitViews

NextGreedy == PrioritizeNaive \/ PrioritizeNaiveDeps

SpecCycles == InitCycles /\ [][NextGreedy]_vars

(***************************************************************************)
(* C18.  For every input, including one whose dependency edges contain a   *)
(* cycle among actionable projects, naive and naive-deps modes terminate   *)
(* with a result; in naive-deps mode no project that lies on such a cycle, *)
(* or that transitively depends on one, is selected.                       *)
(***************************************************************************)
\* The projects that id depends on through one or more edges between
\* actionable projects.
RECURSIVE PrerequisiteClosure(_, _)
PrerequisiteClosure(front, seen) ==
    LET next == UNION {ActionablePrerequisites(id) : id \in front} \ seen
    IN  IF next = {} THEN seen
        ELSE PrerequisiteClosure(next, seen \cup next)

TransitivePrerequisites(id) ==
    PrerequisiteClosure(ActionablePrerequisites(id),
                        ActionablePrerequisites(id))

OnCycle == {id \in ActionableIds : id \in TransitivePrerequisites(id)}

BehindCycle ==
    {id \in ActionableIds : TransitivePrerequisites(id) \cap OnCycle # {}}

IsResult(r) ==
    DOMAIN r = {"selectedProjects", "unselectedProjects", "teamSummaries"}

C18_GreedyModesTerminateAndSkipCycles ==
    /\ mode = "none" =>
          \A m \in {"naive", "naive-deps"} :
              /\ Outcomes(m, dependencies) # {}
              /\ \A r \in Outcomes(m, dependencies) : IsResult(r)
    /\ mode \in {"naive", "naive-deps"} =>
          /\ IsResult(result)
          /\ Range(Ids(result.selectedProjects)) \cup Range(Ids(result.unselectedProjects))
                = InputIds
    /\ mode = "naive-deps" => SelectedIds \cap (OnCycle \cup BehindCycle) = {}

\* A naive-deps call on an input with a cycle, a project that depends on
\* the cycle without lying on it, and a selected project outside both.
C18_Witness ==
    /\ mode = "naive-deps"
    /\ OnCycle # {}
    /\ BehindCycle \ OnCycle # {}
    /\ SelectedIds # {}
    /\ \A id \in OnCycle \cup BehindCycle : FitsAfter(id, SelectedIds)

(***************************************************************************)
(* The store (src/lib/store.ts) and the dependency drawer                  *)
(* (src/components/dependency-drawer.tsx).  teams, projects and            *)
(* dependencies are the store's fields; projects is the store's record in  *)
(* insertion order (Object.values).  An id of crypto.randomUUID() is the   *)
(* first id of the pool that no stored team or project carries.            *)
(***************************************************************************)
StoreProjectIds == <<"p1", "p2", "p3">>
StoreTeamIds == <<"t1", "t2">>
\* The titles a user gives to new projects.
Titles == {"X", "Y"}

StoredIds(s) == {s[i].id : i \in DOMAIN s}
HasFreshId(pool, s) == \E i \in DOMAIN pool : pool[i] \notin StoredIds(s)
FreshId(pool, s) ==
    pool[CHOOSE i \in DOMAIN pool :
            /\ pool[i] \notin StoredIds(s)
            /\ \A j \in 1..(i - 1) : pool[j] \in StoredIds(s)]

StoredProject(ps, id) == CHOOSE p \in Range(ps) : p.id = id

\* addTeam, lines 98-109.
addTeam(ts, id, name, capacity) ==
    Append(ts, [id |-> id, name |-> name, capacity |-> capacity])

\* addProject, lines 191-206.  A project without the optional fields has
\* sourceProjectId undefined and isLinkedCopy falsy.
addProject(ps, id, teamId, title) ==
    Append(ps, [id |-> id, teamId |-> teamId, title |-> title,
                effort |-> Unset, value |-> Unset,
                sourceProjectId |-> Undefined, isLinkedCopy |-> FALSE])

\* updateProject, lines 208-230: data is a Partial<Project>, a record of
\* the fields to overwrite.
Merged(project, data) ==
    [f \in DOMAIN project |-> IF f \in DOMAIN data THEN data[f] ELSE project[f]]

\* A variant that overwrites the fields of the one project only.
updateProject_OneProject(ps, id, data) ==
    Map(ps, LAMBDA p : IF p.id = id THEN Merged(p, data) ELSE p)

updateProject(ps, id, data) ==
    LET project == StoredProject(ps, id)
        updates == [f \in DOMAIN data \cap {"title", "value"} |-> data[f]]
    IN  IF id \notin StoredIds(ps) THEN ps
        ELSE Map(ps,
                 LAMBDA p :
                    IF /\ ~project.isLinkedCopy
                       /\ DOMAIN updates # {}
                       /\ p.sourceProjectId = id
                    THEN Merged(p, updates)
                    ELSE IF p.id = id THEN Merged(project, data)
                    ELSE p)

\* duplicateProject, lines 283-304.
duplicateProject(ps, newId, id, targetTeamId) ==
    LET sourceProject == StoredProject(ps, id)
    IN  Append(ps, [id |-> newId, teamId |-> targetTeamId,
                    title |-> sourceProject.title,
                    effort |-> sourceProject.effort,
                    value |-> sourceProject.value,
                    sourceProjectId |-> Undefined, isLinkedCopy |-> FALSE])

\* duplicateProjectAsLinked, lines 306-330.
duplicateProjectAsLinked(ps, newId, id, targetTeamId) ==
    LET sourceProject == StoredProject(ps, id)
        sourceId == IF sourceProject.sourceProjectId # Undefined
                    THEN sourceProject.sourceProjectId ELSE id
    IN  Append(ps, [id |-> newId, teamId |-> targetTeamId,
                    title |-> sourceProject.title, effort |-> Unset,
                    value |-> sourceProject.value,
                    sourceProjectId |-> sourceId, isLinkedCopy |-> TRUE])

\* A variant that appends the edge without looking for it first.
addDependency_Always(deps, sourceId, targetId) ==
    Append(deps, [sourceId |-> sourceId, targetId |-> targetId])

\* addDependency, lines 333-343.
addDependency(deps, sourceId, targetId) ==
    IF \E k \in DOMAIN deps :
          deps[k].sourceId = sourceId /\ deps[k].targetId = targetId
    THEN deps
    ELSE Append(deps, [sourceId |-> sourceId, targetId |-> targetId])

\* removeDependency, lines 345-349.
removeDependency(deps, sourceId, targetId) ==
    Filter(deps, LAMBDA dep :
                    ~(dep.sourceId = sourceId /\ dep.targetId = targetId))

\* checkForCyclicDependency, lines 351-371.  canReach is a depth-first
\* search along the edges from a source to its targets; the one visited set
\* is shared by all the recursive calls, and `some` stops at the first
\* dependent that reaches `to`.
RECURSIVE canReach(_, _, _, _)
RECURSIVE SomeCanReach(_, _, _, _)
canReach(deps, from, to, visited) ==
    IF from = to THEN [found |-> TRUE, visited |-> visited]
    ELSE IF from \in visited THEN [found |-> FALSE, visited |-> visited]
    ELSE SomeCanReach(deps,
                      Map(Filter(deps, LAMBDA dep : dep.sourceId = from),
                          LAMBDA dep : dep.targetId),
                      to, visited \cup {from})

SomeCanReach(deps, dependents, to, visited) ==
    IF dependents = <<>> THEN [found |-> FALSE, visited |-> visited]
    ELSE LET first == canReach(deps, Head(dependents), to, visited)
         IN  IF first.found THEN first
             ELSE SomeCanReach(deps, Tail(dependents), to, first.visited)

\* A variant that looks at the direct dependents of the target only.
checkForCyclicDependency_OneStep(deps, sourceId, targetId) ==
    \/ sourceId = targetId
    \/ \E k \in DOMAIN deps :
          deps[k].sourceId = targetId /\ deps[k].targetId = sourceId

\* A variant that searches from the source for the target.
checkForCyclicDependency_Backwards(deps, sourceId, targetId) ==
    canReach(deps, sourceId, targetId, {}).found

checkForCyclicDependency(deps, sourceId, targetId) ==
    canReach(deps, targetId, sourceId, {}).found

\* deleteProject, lines 232-278: the project, and with it the original and
\* every linked copy of the same original.
ProjectsToDelete(ps, id) ==
    LET project == StoredProject(ps, id)
        CopiesOf(sourceId) ==
            {p.id : p \in {q \in Range(ps) : q.sourceProjectId = sourceId}}
    IN  IF ~project.isLinkedCopy THEN {id} \cup CopiesOf(id)
        ELSE IF project.sourceProjectId # Undefined
        THEN {id, project.sourceProjectId} \cup CopiesOf(project.sourceProjectId)
        ELSE {id}

WithoutProjects(ps, ids) == Filter(ps, LAMBDA p : p.id \notin ids)

\* A variant that keeps the edges that end at a deleted project.
WithoutDependenciesOf_SourceOnly(deps, ids) ==
    Filter(deps, LAMBDA dep : dep.sourceId \notin ids)

WithoutDependenciesOf(deps, ids) ==
    Filter(deps, LAMBDA dep : dep.sourceId \notin ids /\ dep.targetId \notin ids)

\* deleteTeam, lines 122-184: the team's projects go, and a linked copy of
\* one of them in another team becomes a standalone project.
TeamProjectIds(ps, teamId) ==
    {p.id : p \in {q \in Range(ps) : q.teamId = teamId}}

\* A variant that leaves the remaining projects as they are.
RemainingProjects_KeepLinks(ps, teamId) ==
    WithoutProjects(ps, TeamProjectIds(ps, teamId))

RemainingProjects(ps, teamId) ==
    Map(WithoutProjects(ps, TeamProjectIds(ps, teamId)),
        LAMBDA project :
            IF /\ project.isLinkedCopy
               /\ project.sourceProjectId # Undefined
               /\ project.sourceProjectId \in TeamProjectIds(ps, teamId)
            THEN [project EXCEPT !.isLinkedCopy = FALSE,
                                 !.sourceProjectId = Undefined]
            ELSE project)

(***************************************************************************)
(* The store's state machine: the empty store, and the operations of the   *)
(* team and project views and of the dependency drawer.  The drawer acts   *)
(* on the selected project, a stored project, outside the read-only view.  *)
(***************************************************************************)
InitStore ==
    /\ teams = <<>>
    /\ projects = <<>>
    /\ dependencies = <<>>
    /\ mode = "none"
    /\ status = "none"
    /\ result = NoResult
    /\ InitViews

\* GlobalView, part_003 lines 37-50: the effect runs again when the view is
\* mounted and the store's projects or teams have changed (getDependencies,
\* the third entry of its dependency list, is the same function for ever);
\* it clears the pending timeout and sets a new one, which captures the
\* projects and teams of this render.
GlobalViewEffect ==
    IF debouncedInputs # <<>> /\ (projects' # projects \/ teams' # teams)
    THEN /\ handler' = <<[projects |-> projects', teams |-> teams']>>
         /\ UNCHANGED debouncedInputs
    ELSE UNCHANGED <<debouncedInputs, handler>>

AddTeam ==
    /\ HasFreshId(StoreTeamIds, teams)
    /\ teams' = addTeam(teams, FreshId(StoreTeamIds, teams), "A", 0)
    /\ selectedTeamId' = FreshId(StoreTeamIds, teams)
    /\ showGlobalView' = FALSE
    /\ UNCHANGED <<projects, dependencies, mode, status, result,
                   selectedProjectId, initialized>>
    /\ GlobalViewEffect

AddProject ==
    /\ HasFreshId(StoreProjectIds, projects)
    /\ \E teamId \in StoredIds(teams), title \in Titles :
          projects' = addProject(projects, FreshId(StoreProjectIds, projects),
                                 teamId, title)
    /\ UNCHANGED <<teams, dependencies, mode, status, result,
                   selectedTeamId, selectedProjectId, showGlobalView, initialized>>
    /\ GlobalViewEffect

\* selectProject, lines 280-282: a click on a stored project, or the
\* drawer closing (selectProject(null)).
SelectProject ==
    /\ \E id \in StoredIds(projects) \cup {Null} :
          /\ id # selectedProjectId
          /\ selectedProjectId' = id
    /\ UNCHANGED <<teams, projects, dependencies, mode, status, result,
                   selectedTeamId, showGlobalView, initialized>>
    /\ GlobalViewEffect

\* duplicateProject, lines 283-304.
DuplicateProject ==
    /\ HasFreshId(StoreProjectIds, projects)
    /\ \E id \in StoredIds(projects), targetTeamId \in StoredIds(teams) :
          projects' = duplicateProject(projects, FreshId(StoreProjectIds, projects),
                                       id, targetTeamId)
    /\ UNCHANGED <<teams, dependencies, mode, status, result,
                   selectedTeamId, selectedProjectId, showGlobalView, initialized>>
    /\ GlobalViewEffect

\* handleLinkToTeamDefault, dependency-drawer.tsx lines 238-270.
LinkToTeamDefault ==
    /\ HasFreshId(StoreProjectIds, projects)
    /\ selectedProjectId \in StoredIds(projects)
    /\ \E selectedTeamIdForLink \in StoredIds(teams) :
          LET newLinkedProjectId == FreshId(StoreProjectIds, projects)
          IN  /\ selectedTeamIdForLink
                    # StoredProject(projects, selectedProjectId).teamId
              /\ projects' = duplicateProjectAsLinked(projects, newLinkedProjectId,
                                  selectedProjectId, selectedTeamIdForLink)
              /\ dependencies' = addDependency(dependencies, newLinkedProjectId,
                                               selectedProjectId)
    /\ UNCHANGED <<teams, mode, status, result,
                   selectedTeamId, selectedProjectId, showGlobalView, initialized>>
    /\ GlobalViewEffect

\* handleLinkToExistingProject, dependency-drawer.tsx lines 272-295.
LinkToExistingProject ==
    /\ selectedProjectId \in StoredIds(projects)
    /\ \E targetProjectIdForExistingLink \in StoredIds(projects) :
          dependencies' =
              IF checkForCyclicDependency(dependencies,
                     targetProjectIdForExistingLink, selectedProjectId)
              THEN dependencies
              ELSE addDependency(dependencies, targetProjectIdForExistingLink,
                                 selectedProjectId)
    /\ UNCHANGED <<teams, projects, mode, status, result,
                   selectedTeamId, selectedProjectId, showGlobalView, initialized>>
    /\ GlobalViewEffect

\* handleCreateNewProjectAndLink, dependency-drawer.tsx lines 297-322.
CreateNewProjectAndLink ==
    /\ HasFreshId(StoreProjectIds, projects)
    /\ selectedProjectId \in StoredIds(projects)
    /\ \E selectedTeamIdForLink \in StoredIds(teams),
          newProjectTitleForNewLink \in Titles :
          LET newProjectId == FreshId(StoreProjectIds, projects)
          IN  /\ projects' = addProject(projects, newProjectId,
                                        selectedTeamIdForLink,
                                        newProjectTitleForNewLink)
              /\ dependencies' = addDependency(dependencies, newProjectId,
                                               selectedProjectId)
    /\ UNCHANGED <<teams, mode, status, result,
                   selectedTeamId, selectedProjectId, showGlobalView, initialized>>
    /\ GlobalViewEffect

RemoveDependency ==
    /\ \E k \in DOMAIN dependencies :
          dependencies' = removeDependency(dependencies, dependencies[k].sourceId,
                                           dependencies[k].targetId)
    /\ UNCHANGED <<teams, projects, mode, status, result,
                   selectedTeamId, selectedProjectId, showGlobalView, initialized>>
    /\ GlobalViewEffect

\* deleteProject, lines 232-278.
DeleteProject ==
    /\ \E id \in StoredIds(projects) :
          /\ projects' = WithoutProjects(projects, ProjectsToDelete(projects, id))
          /\ dependencies' = WithoutDependenciesOf(dependencies,
                                                   ProjectsToDelete(projects, id))
          /\ selectedProjectId' =
                IF selectedProjectId \in ProjectsToDelete(projects, id)
                THEN Null ELSE selectedProjectId
    /\ UNCHANGED <<teams, mode, status, result,
                   selectedTeamId, showGlobalView, initialized>>
    /\ GlobalViewEffect

\* deleteTeam, lines 122-184.
DeleteTeam ==
    /\ \E id \in StoredIds(teams) :
          LET remainingTeams == Filter(teams, LAMBDA team : team.id # id)
          IN  /\ projects' = RemainingProjects(projects, id)
              /\ dependencies' = WithoutDependenciesOf(dependencies,
                                                       TeamProjectIds(projects, id))
              /\ teams' = remainingTeams
              /\ selectedTeamId' =
                    IF selectedTeamId # id THEN selectedTeamId
                    ELSE IF Len(remainingTeams) > 0 THEN remainingTeams[1].id
                    ELSE Null
              /\ showGlobalView' =
                    IF Len(remainingTeams) = 0 THEN FALSE ELSE showGlobalView
              /\ selectedProjectId' =
                    IF selectedProjectId \in TeamProjectIds(projects, id)
                    THEN Null ELSE selectedProjectId
    /\ UNCHANGED <<mode, status, result, initialized>>
    /\ GlobalViewEffect

NextStore ==
    \/ AddTeam
    \/ AddProject
    \/ SelectProject
    \/ DuplicateProject
    \/ LinkToTeamDefault
    \/ LinkToExistingProject
    \/ CreateNewProjectAndLink
    \/ RemoveDependency
    \/ DeleteProject
    \/ DeleteTeam

SpecStore == InitStore /\ [][NextStore]_vars

(***************************************************************************)
(* Paths in the stored dependency graph, as sets: the ids that a set of    *)
(* ids reaches by following one or more edges from source to target.       *)
(***************************************************************************)
Targets(deps, ids) ==
    {deps[k].targetId : k \in {j \in DOMAIN deps : deps[j].sourceId \in ids}}

RECURSIVE TargetClosure(_, _)
TargetClosure(deps, seen) ==
    IF Targets(deps, seen) \subseteq seen THEN seen
    ELSE TargetClosure(deps, seen \cup Targets(deps, seen))

\* By one or more edges.
ReachedFrom(deps, id) == TargetClosure(deps, Targets(deps, {id}))

EdgeEnds(deps) ==
    {deps[k].sourceId : k \in DOMAIN deps} \cup {deps[k].targetId : k \in DOMAIN deps}

Acyclic(deps) == \A id \in EdgeEnds(deps) : id \notin ReachedFrom(deps, id)

(***************************************************************************)
(* C19.  In every state reachable from the empty store by add team, add    *)
(* project, the drawer's three link operations, removeDependency,          *)
(* deleteProject and deleteTeam, the stored dependency edges form an       *)
(* acyclic graph with no self-loop.                                        *)
(***************************************************************************)
C19_StoredDependenciesAcyclic ==
    /\ \A k \in DOMAIN dependencies :
          dependencies[k].sourceId # dependencies[k].targetId
    /\ Acyclic(dependencies)

\* A chain of two stored edges whose closing edge the drawer refuses: the
\* check answers true for it, and no single edge shows why.
C19_Witness ==
    \E a \in StoredIds(projects), b \in StoredIds(projects) :
        /\ a # b
        /\ checkForCyclicDependency(dependencies, a, b)
        /\ ~\E k \in DOMAIN dependencies :
              dependencies[k].sourceId = b /\ dependencies[k].targetId = a
        /\ \E p \in Range(projects) : p.isLinkedCopy

(***************************************************************************)
(* checkForCyclicDependency on any stored edge set: up to MaxDeps + 1      *)
(* distinct edges between the three projects, in any order, self-loops     *)
(* and cycles included (such a store can come from importData).            *)
(***************************************************************************)
AnyDependencyLists ==
    UNION {{[i \in 1..n |-> CycleEdge(k[i])] :
              k \in {f \in [1..n -> 1..CycleEdgeCount] :
                        \A i \in 1..n, j \in 1..n : i # j => f[i] # f[j]}} :
           n \in 0..(MaxDeps + 1)}

InitAnyStore ==
    /\ teams = <<[id |-> StoreTeamIds[1], name |-> "A", capacity |-> 0]>>
    /\ projects = [i \in DOMAIN StoreProjectIds |->
                      [id |-> StoreProjectIds[i], teamId |-> StoreTeamIds[1],
                       title |-> "X", effort |-> Unset, value |-> Unset,
                       sourceProjectId |-> Undefined, isLinkedCopy |-> FALSE]]
    /\ dependencies \in AnyDependencyLists
    /\ mode = "none"
    /\ status = "none"
    /\ result = NoResult
    /\ InitViews

\* A call of checkForCyclicDependency; result holds its arguments, what it
\* returned and the store's fields as the call found them.
CheckForCyclicDependency ==
    /\ mode = "none"
    /\ \E sourceId \in StoredIds(projects), targetId \in StoredIds(projects) :
          result' = [sourceId |-> sourceId, targetId |-> targetId,
                     returned |-> checkForCyclicDependency(dependencies,
                                                           sourceId, targetId),
                     store |-> <<teams, projects, dependencies>>]
    /\ mode' = "checkForCyclicDependency"
    /\ UNCHANGED <<teams, projects, dependencies, status, views>>

SpecAnyStore == InitAnyStore /\ [][CheckForCyclicDependency]_vars

(***************************************************************************)
(* C20.  checkForCyclicDependency(sourceId, targetId) returns true if and  *)
(* only if sourceId is reachable from targetId by zero or more stored      *)
(* edges followed from source to target (so it is true when the two are    *)
(* equal); it terminates on every stored edge set, one with a cycle        *)
(* included, and changes no store field.                                   *)
(***************************************************************************)
C20_CheckIsReachability ==
    /\ mode = "none" =>
          \A sourceId \in StoredIds(projects), targetId \in StoredIds(projects) :
              checkForCyclicDependency(dependencies, sourceId, targetId) \in BOOLEAN
    /\ mode = "checkForCyclicDependency" =>
          /\ result.returned =
                (\/ result.sourceId = result.targetId
                 \/ result.sourceId \in ReachedFrom(dependencies, result.targetId))
          /\ <<teams, projects, dependencies>> = result.store

\* A call that returns true by a path of two edges, on an edge set that
\* has a cycle elsewhere.
C20_Witness ==
    /\ mode = "checkForCyclicDependency"
    /\ result.returned
    /\ result.sourceId # result.targetId
    /\ ~\E k \in DOMAIN dependencies :
          /\ dependencies[k].sourceId = result.targetId
          /\ dependencies[k].targetId = result.sourceId
    /\ ~Acyclic(dependencies)

(***************************************************************************)
(* topologicalSort, lines 24-84 (Kahn's algorithm), on its own: the nodes  *)
(* are OptimizationProjects, each with the list of the ids it depends on.  *)
(***************************************************************************)
\* The position of an id in the ascending order of the ids.
IdRank(id) == CHOOSE k \in DOMAIN CycleProjectIds : CycleProjectIds[k] = id

\* A variant that orders the ready list by descending id.
ByIdAsc_Descending(a, b) == IdRank(a.id) > IdRank(b.id)

\* a.id.localeCompare(b.id) < 0
ByIdAsc(a, b) == IdRank(a.id) < IdRank(b.id)

\* Lines 32-43: every node keeps the dependencies that name a node.
WithValidDependencies(nodes) ==
    LET projectIds == {nodes[i].id : i \in DOMAIN nodes}
    IN  Map(nodes,
            LAMBDA proj :
               [proj EXCEPT !.dependencies =
                   Filter(@, LAMBDA depId : depId \in projectIds)])

TopoIndegree(nodes) ==
    [id \in {nodes[i].id : i \in DOMAIN nodes} |->
        Len((CHOOSE p \in Range(nodes) : p.id = id).dependencies)]

\* Lines 45-51: adjList[dep].push(proj.id), in the order of the two loops.
TopoAdjList(nodes) ==
    [id \in {nodes[i].id : i \in DOMAIN nodes} |->
        Map(Filter(DependencyPairs(nodes), LAMBDA e : e.dep = id),
            LAMBDA e : e.id)]

\* Lines 71-81: the neighbours of the emitted node lose one open dependency
\* each; one that reaches zero is pushed to ready, which is sorted again.
RECURSIVE Release(_, _, _, _)
Release(neighbours, nodes, indegree, ready) ==
    IF neighbours = <<>> THEN [indegree |-> indegree, ready |-> ready]
    ELSE LET neighborId == Head(neighbours)
             indeg == [indegree EXCEPT ![neighborId] = @ - 1]
             neighborProj == nodes[CHOOSE i \in DOMAIN nodes :
                                     /\ nodes[i].id = neighborId
                                     /\ \A j \in 1..(i - 1) :
                                           nodes[j].id # neighborId]
         IN  Release(Tail(neighbours), nodes, indeg,
                     IF indeg[neighborId] = 0
                     THEN StableSort(Append(ready, neighborProj), ByIdAsc)
                     ELSE ready)

\* Lines 66-82: while (ready.length > 0).
RECURSIVE KahnLoop(_, _, _, _, _)
KahnLoop(nodes, adjList, indegree, ready, order) ==
    IF ready = <<>> THEN order
    ELSE LET current == Head(ready)
             next == Release(adjList[current.id], nodes, indegree, Tail(ready))
         IN  KahnLoop(nodes, adjList, next.indegree, next.ready,
                      Append(order, current))

topologicalSort(nodes) ==
    LET valid == WithValidDependencies(nodes)
        indegree == TopoIndegree(valid)
        ready == StableSort(Filter(valid, LAMBDA proj : indegree[proj.id] = 0),
                            ByIdAsc)
    IN  KahnLoop(valid, TopoAdjList(valid), indegree, ready, <<>>)

(***************************************************************************)
(* Calls of topologicalSort: two or three nodes with distinct ids, in any  *)
(* order, each with up to MaxDeps dependency ids out of the three ids, an  *)
(* id possibly twice, its own id and an id of no node included.            *)
(***************************************************************************)
DependencyIdLists ==
    UNION {[1..n -> Range(CycleProjectIds)] : n \in 0..MaxDeps}

NodeLists ==
    UNION {{ns \in [1..n -> [id : Range(CycleProjectIds), team : {"A"},
                             value : {1}, effort : {1},
                             dependencies : DependencyIdLists]] :
              \A i \in 1..n, j \in 1..n : i # j => ns[i].id # ns[j].id} :
           n \in 2..Len(CycleProjectIds)}

InitTopo ==
    /\ projects \in NodeLists
    /\ teams = <<>>
    /\ dependencies = <<>>
    /\ mode = "none"
    /\ status = "none"
    /\ result = NoResult
    /\ InitViews

\* A call of topologicalSort on the nodes; result holds what it returned.
TopologicalSort ==
    /\ mode = "none"
    /\ mode' = "topologicalSort"
    /\ result' = [order |-> topologicalSort(projects)]
    /\ UNCHANGED <<projects, teams, dependencies, status, views>>

SpecTopo == InitTopo /\ [][TopologicalSort]_vars

(***************************************************************************)
(* The dependency graph of a node list.                                    *)
(***************************************************************************)
NodeIds(nodes) == {nodes[i].id : i \in DOMAIN nodes}
NodeOf(nodes, id) == CHOOSE p \in Range(nodes) : p.id = id
DependencyIds(nodes, id) == Range(NodeOf(nodes, id).dependencies)

\* Every dependency id names a node.
DependenciesClosed(nodes) ==
    \A id \in NodeIds(nodes) : DependencyIds(nodes, id) \subseteq NodeIds(nodes)

RECURSIVE DependencyClosure(_, _)
DependencyClosure(nodes, seen) ==
    LET more == seen \cup UNION {DependencyIds(nodes, id) : id \in seen}
    IN  IF more = seen THEN seen ELSE DependencyClosure(nodes, more)

\* The nodes id depends on, directly or through other nodes.
TransitiveDependencies(nodes, id) ==
    IF DependencyIds(nodes, id) = {} THEN {}
    ELSE DependencyClosure(nodes, DependencyIds(nodes, id))

NodeOnCycle(nodes, id) == id \in TransitiveDependencies(nodes, id)

NodeOnOrBehindCycle(nodes, id) ==
    \E c \in {id} \cup TransitiveDependencies(nodes, id) : NodeOnCycle(nodes, c)

AcyclicNodes(nodes) == \A id \in NodeIds(nodes) : ~NodeOnCycle(nodes, id)

\* The nodes that are not yet emitted after the first k positions of order
\* and whose dependencies are all among these k.
ReadyAfter(nodes, order, k) ==
    LET emitted == {order[i].id : i \in 1..k}
    IN  {id \in NodeIds(nodes) \ emitted :
            DependencyIds(nodes, id) \subseteq emitted}

(***************************************************************************)
(* C21.  For an acyclic node set whose dependency ids all name nodes of    *)
(* the set, topologicalSort returns every node exactly once, each node     *)
(* after all of its dependencies, and at each position the emitted node    *)
(* is the one with the smallest id among the nodes whose dependencies have *)
(* all been emitted already; for a cyclic input it terminates and returns  *)
(* only the nodes that do not lie on or behind a cycle.                    *)
(***************************************************************************)
C21_TopologicalSortOrder ==
    /\ (mode = "none" /\ DependenciesClosed(projects)) =>
          topologicalSort(projects) \in Seq(Range(projects))
    /\ (mode = "topologicalSort" /\ DependenciesClosed(projects)) =>
          LET order == result.order
          IN  /\ \A i \in DOMAIN order : order[i] \in Range(projects)
              /\ \A i \in DOMAIN order, j \in DOMAIN order :
                    i # j => order[i].id # order[j].id
              /\ {order[i].id : i \in DOMAIN order} =
                    {id \in NodeIds(projects) :
                        ~NodeOnOrBehindCycle(projects, id)}
              /\ AcyclicNodes(projects) => Len(order) = Len(projects)
              /\ \A i \in DOMAIN order :
                    /\ order[i].id \in ReadyAfter(projects, order, i - 1)
                    /\ \A id \in ReadyAfter(projects, order, i - 1) :
                          IdRank(order[i].id) <= IdRank(id)

\* An acyclic call on three nodes, the first two of which depend on the
\* third alone: the third is emitted first, then the two in id order.
C21_Witness ==
    /\ mode = "topologicalSort"
    /\ DependenciesClosed(projects)
    /\ AcyclicNodes(projects)
    /\ Len(result.order) = 3
    /\ result.order[1].id = CycleProjectIds[3]
    /\ result.order[2].id = CycleProjectIds[1]
    /\ result.order[3].id = CycleProjectIds[2]
    /\ CycleProjectIds[1] \notin DependencyIds(projects, CycleProjectIds[2])
    /\ projects[1].id = CycleProjectIds[2]

(***************************************************************************)
(* planProjectsBruteforce, lines 91-153: the include/exclude search over   *)
(* the topological order.  best is the pair (bestValue, bestSelectedSet)   *)
(* the closure updates; dfs returns it as the call leaves it.              *)
(***************************************************************************)
\* A variant that takes a project whatever its dependencies.
DepsSatisfied_Always(proj, selected) == TRUE

\* deps.every((depId) => selected.has(depId))
DepsSatisfied(proj, selected) ==
    \A k \in DOMAIN proj.dependencies : proj.dependencies[k] \in selected

RECURSIVE dfs(_, _, _, _, _, _)
dfs(topoOrder, index, currentValue, remainingCap, selected, best) ==
    IF index = Len(topoOrder) + 1
    THEN IF currentValue > best.value
         THEN [value |-> currentValue, selected |-> selected]
         ELSE best
    ELSE LET proj == topoOrder[index]
         IN  IF ~DepsSatisfied(proj, selected)
             THEN dfs(topoOrder, index + 1, currentValue, remainingCap,
                      selected, best)
             ELSE LET skipped == dfs(topoOrder, index + 1, currentValue,
                                     remainingCap, selected, best)
                  IN  IF Fits(remainingCap, proj)
                      THEN dfs(topoOrder, index + 1, currentValue + proj.value,
                               Charge(remainingCap, proj),
                               selected \cup {proj.id}, skipped)
                      ELSE skipped

planProjectsBruteforce(teamCapacities, nodes) ==
    LET topoOrder == topologicalSort(nodes)
        best == dfs(topoOrder, 1, 0, teamCapacities, {},
                    [value |-> 0, selected |-> {}])
    IN  [sequence |-> Map(Filter(topoOrder, LAMBDA p : p.id \in best.selected),
                          LAMBDA p : p.id),
         value |-> best.value]

(***************************************************************************)
(* Calls of planProjectsBruteforce: three projects of the teams A and B    *)
(* (the third possibly of no team), with the efforts up to the bound and   *)
(* two positive values, the dependencies of up to MaxDeps edges between    *)
(* two different projects, and a capacity for each of the two teams.       *)
(***************************************************************************)
BruteforceValues == {2, 3}

BruteforceEdgeLists ==
    {deps \in CycleDependencyLists :
        /\ Len(deps) <= MaxDeps
        /\ \A k \in DOMAIN deps : deps[k].sourceId # deps[k].targetId}

BruteforceTeams ==
    {ts \in [DOMAIN CycleProjectIds -> TeamNames \cup {Undefined}] :
        /\ ts[1] = "A"
        /\ ts[2] # Undefined
        /\ ts[3] # "B"}

BruteforceNodeLists ==
    {[i \in DOMAIN CycleProjectIds |->
        [id |-> CycleProjectIds[i], team |-> ts[i],
         value |-> vs[i], effort |-> es[i],
         dependencies |->
            Map(Filter(deps, LAMBDA dep : dep.targetId = CycleProjectIds[i]),
                LAMBDA dep : dep.sourceId)]] :
        ts \in BruteforceTeams,
        vs \in [DOMAIN CycleProjectIds -> BruteforceValues],
        es \in [DOMAIN CycleProjectIds -> 0..MaxEffort],
        deps \in BruteforceEdgeLists}

InitBruteforce ==
    /\ projects \in BruteforceNodeLists
    /\ teams \in [TeamNames -> Capacities]
    /\ dependencies = <<>>
    /\ mode = "none"
    /\ status = "none"
    /\ result = NoResult
    /\ InitViews

\* A call of planProjectsBruteforce(teams, projects).
PlanBruteforce ==
    /\ mode = "none"
    /\ mode' = "bruteforce"
    /\ result' = planProjectsBruteforce(teams, projects)
    /\ UNCHANGED <<projects, teams, dependencies, status, views>>

SpecBruteforce == InitBruteforce /\ [][PlanBruteforce]_vars

(***************************************************************************)
(* C22.  planProjectsBruteforce returns a set of projects that respects    *)
(* every team's capacity and contains all dependencies of each of its      *)
(* members, whose total value equals the maximum total value over all such *)
(* subsets of the given acyclic project set; the returned value field      *)
(* equals the sum of the values of the returned sequence, and the sequence *)
(* is in topological order.  A project of no team with a capacity belongs  *)
(* to no such subset.                                                      *)
(***************************************************************************)
NodeEffort(S, team) ==
    SumSeq(Map(Filter(projects, LAMBDA p : p.id \in S /\ p.team = team),
               LAMBDA p : p.effort))

NodeValue(S) ==
    SumSeq(Map(Filter(projects, LAMBDA p : p.id \in S), LAMBDA p : p.value))

Plannable(S) ==
    /\ \A id \in S : NodeOf(projects, id).team \in DOMAIN teams
    /\ \A team \in DOMAIN teams : NodeEffort(S, team) <= teams[team]
    /\ \A id \in S : DependencyIds(projects, id) \subseteq S

C22_BruteforceIsOptimal ==
    (/\ mode = "bruteforce"
     /\ AcyclicNodes(projects)) =>
        LET sequence == result.sequence
            chosen == Range(sequence)
        IN  /\ NoRepeat(sequence)
            /\ chosen \subseteq NodeIds(projects)
            /\ Plannable(chosen)
            /\ \A S \in SUBSET NodeIds(projects) :
                  Plannable(S) => NodeValue(S) <= NodeValue(chosen)
            /\ result.value = NodeValue(chosen)
            /\ \A i \in DOMAIN sequence :
                  DependencyIds(projects, sequence[i])
                      \subseteq {sequence[j] : j \in 1..(i - 1)}
            /\ sequence = Map(Filter(topologicalSort(projects),
                                     LAMBDA p : p.id \in chosen),
                              LAMBDA p : p.id)

\* A call in which the project of the highest value is left out for two
\* others, one of which depends on the other and precedes it in id order.
C22_Witness ==
    /\ mode = "bruteforce"
    /\ AcyclicNodes(projects)
    /\ Len(result.sequence) = 2
    /\ \E id \in NodeIds(projects) \ Range(result.sequence) :
          /\ NodeOf(projects, id).value = 3
          /\ NodeOf(projects, id).team \in DOMAIN teams
          /\ DependencyIds(projects, id) = {}
          /\ \A other \in Range(result.sequence) :
                NodeOf(projects, other).value = 2
    /\ result.sequence[1] \in DependencyIds(projects, result.sequence[2])
    /\ IdRank(result.sequence[1]) > IdRank(result.sequence[2])

(***************************************************************************)
(* importData, store.ts lines 73-95, called by handleFileChange            *)
(* (app-header.tsx lines 99-140) with the value JSON.parse returned.  A    *)
(* JSON value is a record with its kind: "null", "string", "array" (with   *)
(* its items), "object" (a map of projects with its values in key order,   *)
(* or the file itself with its three keys), and "undefined" for a key      *)
(* that is missing.                                                        *)
(***************************************************************************)
JsonNull == [kind |-> "null"]
JsonUndefined == [kind |-> "undefined"]
JsonString == [kind |-> "string"]
JsonArray(items) == [kind |-> "array", items |-> items]
JsonObject(items) == [kind |-> "object", items |-> items]

\* Array.isArray(v) and typeof v === "object"
IsArray(v) == v.kind = "array"
TypeofObject(v) == v.kind \in {"object", "array", "null"}

\* The test of lines 75-80 (and of handleFileChange, lines 112-117).
Accepted(data) ==
    /\ data.kind = "object"
    /\ IsArray(data.teams)
    /\ TypeofObject(data.projects)
    /\ IsArray(data.dependencies)

\* What the store's projects field holds once data.projects is assigned
\* to it: the projects of a map, or, for a value that is no map, the list
\* of that one value.
AssignedProjects(v) == IF v.kind = "object" THEN v.items ELSE <<[kind |-> v.kind]>>

ImportedTeams ==
    {<<>>,
     <<[id |-> StoreTeamIds[2], name |-> "B", capacity |-> 1]>>,
     <<[id |-> StoreTeamIds[2], name |-> "B", capacity |-> 1],
       [id |-> StoreTeamIds[1], name |-> "A", capacity |-> 1]>>}

ImportedProjects ==
    {<<>>,
     [i \in DOMAIN StoreProjectIds |->
        [id |-> StoreProjectIds[i], teamId |-> StoreTeamIds[2], title |-> "Y",
         effort |-> <<1>>, value |-> <<1>>,
         sourceProjectId |-> Undefined, isLinkedCopy |-> FALSE]]}

ImportedFiles ==
    {JsonNull, JsonString}
    \cup
    [kind : {"object"},
     teams : {JsonArray(ts) : ts \in ImportedTeams}
                \cup {JsonUndefined, JsonString},
     projects : {JsonObject(ps) : ps \in ImportedProjects}
                   \cup {JsonNull, JsonArray(<<>>), JsonUndefined, JsonString},
     dependencies : {JsonArray(deps) : deps \in AnyDependencyLists}
                       \cup {JsonUndefined, JsonNull}]

\* The store's fields.
Store == [teams |-> teams, projects |-> projects, dependencies |-> dependencies,
          selectedTeamId |-> selectedTeamId,
          selectedProjectId |-> selectedProjectId,
          showGlobalView |-> showGlobalView, initialized |-> initialized]

\* The store before a file is imported: the empty store of a first visit,
\* or a store with a team, three projects, one of them selected, and an edge.
InitImport ==
    /\ mode = "none"
    /\ status = "none"
    /\ result = NoResult
    /\ debouncedInputs = <<>>
    /\ handler = <<>>
    /\ \/ /\ teams = <<>>
          /\ projects = <<>>
          /\ dependencies = <<>>
          /\ selectedTeamId = Null
          /\ selectedProjectId = Null
          /\ showGlobalView = FALSE
          /\ initialized = FALSE
       \/ /\ teams = <<[id |-> StoreTeamIds[1], name |-> "A", capacity |-> 0]>>
          /\ projects = [i \in DOMAIN StoreProjectIds |->
                            [id |-> StoreProjectIds[i], teamId |-> StoreTeamIds[1],
                             title |-> "X", effort |-> Unset, value |-> Unset,
                             sourceProjectId |-> Undefined, isLinkedCopy |-> FALSE]]
          /\ dependencies = <<CycleEdge(2)>>
          /\ selectedTeamId = StoreTeamIds[1]
          /\ selectedProjectId = StoreProjectIds[1]
          /\ showGlobalView = FALSE
          /\ initialized = TRUE

\* A call of importData(data); result holds the data and the store's
\* fields as the call found them.
ImportData ==
    /\ mode = "none"
    /\ \E data \in ImportedFiles :
          /\ result' = [data |-> data, store |-> Store]
          /\ IF Accepted(data)
             THEN /\ teams' = data.teams.items
                  /\ projects' = AssignedProjects(data.projects)
                  /\ dependencies' = data.dependencies.items
                  /\ selectedTeamId' = IF Len(data.teams.items) > 0
                                       THEN data.teams.items[1].id ELSE Null
                  /\ selectedProjectId' = Null
                  /\ showGlobalView' = (Len(data.teams.items) = 0)
                  /\ initialized' = TRUE
             ELSE UNCHANGED <<teams, projects, dependencies, selectedTeamId,
                              selectedProjectId, showGlobalView, initialized>>
    /\ mode' = "importData"
    /\ UNCHANGED status
    /\ GlobalViewEffect

SpecImport == InitImport /\ [][ImportData]_vars

(***************************************************************************)
(* C23.  Every snapshot of the store that can be handed to the engine has  *)
(* an acyclic dependency graph even when the store was populated by        *)
(* importData: after importData(data) with any accepted data, the stored   *)
(* dependency edges contain no cycle.                                      *)
(***************************************************************************)
C23_ImportedDependenciesAcyclic ==
    (mode = "importData" /\ Accepted(result.data)) => Acyclic(dependencies)

\* importData stores the edges of the file as they are.
C23_ImportedDependenciesAsInFile ==
    (mode = "importData" /\ Accepted(result.data)) =>
        dependencies = result.data.dependencies.items

(***************************************************************************)
(* C26.  importData called with data that is missing or malformed (teams   *)
(* not an array, projects not an object map of projects - for example      *)
(* null - or dependencies not an array) leaves every store field           *)
(* unchanged; only well-formed data replaces teams, projects and           *)
(* dependencies, sets selectedTeamId to the first imported team (or null), *)
(* clears selectedProjectId and sets initialized.                          *)
(***************************************************************************)
WellFormed(data) ==
    /\ data.kind = "object"
    /\ data.teams.kind = "array"
    /\ data.projects.kind = "object"
    /\ data.dependencies.kind = "array"

C26_MalformedImportChangesNothing ==
    mode = "importData" =>
        IF WellFormed(result.data)
        THEN /\ teams = result.data.teams.items
             /\ projects = result.data.projects.items
             /\ dependencies = result.data.dependencies.items
             /\ selectedTeamId = IF teams = <<>> THEN Null ELSE teams[1].id
             /\ selectedProjectId = Null
             /\ initialized
        ELSE Store = result.store

\* What holds instead: a file whose projects are null or an array is
\* imported like a well-formed one.
C26_ImportChangesNothingUnlessAccepted ==
    mode = "importData" =>
        IF Accepted(result.data)
        THEN /\ teams = result.data.teams.items
             /\ projects = AssignedProjects(result.data.projects)
             /\ dependencies = result.data.dependencies.items
             /\ selectedTeamId = IF teams = <<>> THEN Null ELSE teams[1].id
             /\ selectedProjectId = Null
             /\ initialized
        ELSE Store = result.store

(***************************************************************************)
(* GlobalView (part_003 lines 18-67) over the store.  debouncedInputs      *)
(* starts as the store's projects, teams and dependencies of the first     *)
(* render (lines 27-35), and the effect of that render sets the first      *)
(* timeout.  TeamPrioritizationPanel (part_007 lines 255-295) has the same *)
(* state and the same effect over the team's part of the store.            *)
(***************************************************************************)
InitDebounce ==
    /\ teams = <<[id |-> StoreTeamIds[1], name |-> "A", capacity |-> 0]>>
    /\ projects = [i \in DOMAIN StoreProjectIds |->
                      [id |-> StoreProjectIds[i], teamId |-> StoreTeamIds[1],
                       title |-> "X", effort |-> Unset, value |-> Unset,
                       sourceProjectId |-> Undefined, isLinkedCopy |-> FALSE]]
    /\ dependencies = <<>>
    /\ mode = "none"
    /\ status = "none"
    /\ result = NoResult
    /\ selectedTeamId = StoreTeamIds[1]
    /\ selectedProjectId = Null
    /\ showGlobalView = TRUE
    /\ initialized = TRUE
    /\ debouncedInputs = <<[projects |-> projects, teams |-> teams,
                            dependencies |-> dependencies]>>
    /\ handler = <<[projects |-> projects, teams |-> teams]>>

\* The pending timeout fires after DEBOUNCE_DELAY (lines 38-44): the
\* projects and teams are those of the render that set it, the
\* dependencies are read from the store now (getDependencies()).
Timeout ==
    /\ handler # <<>>
    /\ debouncedInputs' = <<[projects |-> handler[1].projects,
                             teams |-> handler[1].teams,
                             dependencies |-> dependencies]>>
    /\ handler' = <<>>
    /\ UNCHANGED <<projects, teams, dependencies, mode, status, result,
                   selectedTeamId, selectedProjectId, showGlobalView, initialized>>

NextDebounce ==
    \/ AddTeam
    \/ SelectProject
    \/ LinkToExistingProject
    \/ RemoveDependency
    \/ DeleteProject
    \/ Timeout

SpecDebounce == InitDebounce /\ [][NextDebounce]_vars

(***************************************************************************)
(* C24.  In the debounced views, every change of the store's projects,     *)
(* teams or dependencies cancels the pending timer and starts a new one,   *)
(* at most one timer is pending, and once the store stays unchanged for    *)
(* the debounce delay the debounced inputs used for prioritization equal   *)
(* the store's current projects, teams and dependencies (including after a *)
(* change that touches only the dependency list).  The store has stayed    *)
(* unchanged for the delay when no timeout is pending.                     *)
(***************************************************************************)
StoreInputs ==
    [projects |-> projects, teams |-> teams, dependencies |-> dependencies]

C24_DebouncedInputsFollowStore ==
    (debouncedInputs # <<>> /\ handler = <<>>) => debouncedInputs[1] = StoreInputs

\* What holds instead: the projects and teams follow the store, and a
\* pending timeout holds the store's current projects and teams.
C24_DebouncedProjectsAndTeamsFollowStore ==
    /\ (debouncedInputs # <<>> /\ handler = <<>>) =>
          /\ debouncedInputs[1].projects = projects
          /\ debouncedInputs[1].teams = teams
    /\ handler # <<>> =>
          handler[1] = [projects |-> projects, teams |-> teams]

(***************************************************************************)
(* Calls of addDependency and removeDependency with any two project ids,   *)
(* on a store whose dependency list has no edge twice, while the list has  *)
(* at most MaxDeps + 1 entries.  result holds the arguments of the last    *)
(* call and the store's fields as the call found them.                     *)
(***************************************************************************)
AddDependencyCall ==
    /\ \E sourceId \in StoredIds(projects), targetId \in StoredIds(projects) :
          /\ Len(addDependency(dependencies, sourceId, targetId)) <= MaxDeps + 1
          /\ dependencies' = addDependency(dependencies, sourceId, targetId)
          /\ result' = [sourceId |-> sourceId, targetId |-> targetId,
                        store |-> Store]
    /\ mode' = "addDependency"
    /\ UNCHANGED <<teams, projects, status,
                   selectedTeamId, selectedProjectId, showGlobalView, initialized>>
    /\ GlobalViewEffect

RemoveDependencyCall ==
    /\ \E sourceId \in StoredIds(projects), targetId \in StoredIds(projects) :
          /\ dependencies' = removeDependency(dependencies, sourceId, targetId)
          /\ result' = [sourceId |-> sourceId, targetId |-> targetId,
                        store |-> Store]
    /\ mode' = "removeDependency"
    /\ UNCHANGED <<teams, projects, status,
                   selectedTeamId, selectedProjectId, showGlobalView, initialized>>
    /\ GlobalViewEffect

NextDependencies == AddDependencyCall \/ RemoveDependencyCall

SpecDependencies == InitAnyStore /\ [][NextDependencies]_vars

(***************************************************************************)
(* C25.  Starting from a store without duplicate edges, after any sequence *)
(* of addDependency and removeDependency calls the dependency list never   *)
(* contains two entries with the same (sourceId, targetId); addDependency  *)
(* of an edge already present leaves the whole state unchanged, and        *)
(* removeDependency(s, t) removes only the entries equal to (s, t).        *)
(***************************************************************************)
CalledEdge == [sourceId |-> result.sourceId, targetId |-> result.targetId]

C25_DependenciesStayDistinct ==
    /\ NoRepeat(dependencies)
    /\ mode = "addDependency" =>
          /\ CalledEdge \in Range(result.store.dependencies) =>
                Store = result.store
          /\ CalledEdge \in Range(dependencies)
    /\ mode = "removeDependency" =>
          /\ Range(dependencies) = Range(result.store.dependencies) \ {CalledEdge}
          /\ \A i \in DOMAIN dependencies, j \in DOMAIN dependencies :
                i < j => PositionIn(result.store.dependencies, dependencies[i])
                            < PositionIn(result.store.dependencies, dependencies[j])
          /\ [Store EXCEPT !.dependencies = result.store.dependencies]
                = result.store

\* addDependency of an edge that the list of three already holds in the
\* middle; the list is as it was.
C25_Witness ==
    /\ mode = "addDependency"
    /\ Len(dependencies) = 3
    /\ dependencies[2] = CalledEdge
    /\ dependencies = result.store.dependencies

\* removeDependency of the middle one of three edges.
C25_RemovedMiddleEdge ==
    /\ mode = "removeDependency"
    /\ Len(result.store.dependencies) = 3
    /\ result.store.dependencies[2] = CalledEdge
    /\ Len(dependencies) = 2

(***************************************************************************)
(* C27.  In every state reachable from the empty store by add team, add    *)
(* project, duplicateProject, the drawer's link operations,                *)
(* removeDependency, deleteProject and deleteTeam, every stored dependency *)
(* edge has a sourceId and a targetId that are ids of projects currently   *)
(* in the store, and selectedProjectId is null or the id of a project in   *)
(* the store after any deletion.                                           *)
(***************************************************************************)
C27_EdgesAndSelectionNameStoredProjects ==
    /\ \A k \in DOMAIN dependencies :
          /\ dependencies[k].sourceId \in StoredIds(projects)
          /\ dependencies[k].targetId \in StoredIds(projects)
    /\ selectedProjectId \in StoredIds(projects) \cup {Null}

\* A store from which projects have been deleted (the first id of the pool
\* is free again), in which a project is selected and an edge is stored.
C27_Witness ==
    /\ StoreProjectIds[1] \notin StoredIds(projects)
    /\ selectedProjectId \in StoredIds(projects)
    /\ dependencies # <<>>

(***************************************************************************)
(* The project rows (ProjectItem, part_004 lines 346-373) and the store's  *)
(* updateProject: the efforts and values a user types, and the linked      *)
(* copies that follow their original.                                      *)
(***************************************************************************)
\* null for an empty input, else Math.max(0, Number.parseInt(input) || 0).
TypedNumbers == {Unset, <<1>>}

\* handleEffortChange, part_004 lines 346-357.
UpdateEffort ==
    /\ \E id \in StoredIds(projects), effort \in TypedNumbers :
          /\ StoredProject(projects, id).effort # effort
          /\ projects' = updateProject(projects, id, [effort |-> effort])
    /\ UNCHANGED <<teams, dependencies, mode, status, result,
                   selectedTeamId, selectedProjectId, showGlobalView, initialized>>
    /\ GlobalViewEffect

\* handleValueChange, part_004 lines 359-373: nothing for a linked copy.
UpdateValue ==
    /\ \E id \in StoredIds(projects), value \in TypedNumbers :
          /\ StoredProject(projects, id).value # value
          /\ ~StoredProject(projects, id).isLinkedCopy
          /\ projects' = updateProject(projects, id, [value |-> value])
    /\ UNCHANGED <<teams, dependencies, mode, status, result,
                   selectedTeamId, selectedProjectId, showGlobalView, initialized>>
    /\ GlobalViewEffect

\* The store, while projects are added, linked to another team, edited in
\* their rows and deleted.
NextLinks ==
    \/ AddTeam
    \/ AddProject
    \/ SelectProject
    \/ LinkToTeamDefault
    \/ UpdateEffort
    \/ UpdateValue
    \/ DeleteProject
    \/ DeleteTeam

SpecLinks == InitStore /\ [][NextLinks]_vars

(***************************************************************************)
(* C28.  In every state reachable through the UI operations (value edits   *)
(* are refused on linked copies), every project with isLinkedCopy = true   *)
(* has the same title and the same value as the project named by its       *)
(* sourceProjectId: updateProject on a source project copies a changed     *)
(* title or value to all of its linked copies and to no other project,     *)
(* and never propagates effort.                                            *)
(***************************************************************************)
LinkedCopiesFollowSource ==
    \A p \in Range(projects) :
        p.isLinkedCopy =>
            \E q \in Range(projects) :
                /\ q.id = p.sourceProjectId
                /\ q.title = p.title
                /\ q.value = p.value

\* The projects that a step keeps and whose field f it changes.
ChangedIn(f) ==
    {id \in StoredIds(projects) \cap StoredIds(projects') :
        StoredProject(projects, id)[f] # StoredProject(projects', id)[f]}

\* A step changes the title or value of one project that is no copy and of
\* its copies, or of no project; it changes the effort of one project at
\* most.
OnlyCopiesFollow ==
    /\ \/ ChangedIn("title") \cup ChangedIn("value") = {}
       \/ \E id \in ChangedIn("title") \cup ChangedIn("value") :
             /\ ~StoredProject(projects, id).isLinkedCopy
             /\ \A other \in (ChangedIn("title") \cup ChangedIn("value")) \ {id} :
                   /\ StoredProject(projects, other).isLinkedCopy
                   /\ StoredProject(projects, other).sourceProjectId = id
    /\ Cardinality(ChangedIn("effort")) <= 1

DuplicateProjectAsLinked ==
    /\ HasFreshId(StoreProjectIds, projects)
    /\ \E id \in StoredIds(projects), targetTeamId \in StoredIds(teams) :
          projects' = duplicateProjectAsLinked(projects,
                          FreshId(StoreProjectIds, projects), id, targetTeamId)
    /\ UNCHANGED <<teams, dependencies, mode, status, result,
                   selectedTeamId, selectedProjectId, showGlobalView, initialized>>
    /\ GlobalViewEffect

ProjectUpdates ==
    [title : Titles] \cup [effort : TypedNumbers] \cup [value : TypedNumbers]

UpdateProject ==
    /\ \E id \in StoredIds(projects), data \in ProjectUpdates :
          /\ updateProject(projects, id, data) # projects
          /\ projects' = updateProject(projects, id, data)
    /\ UNCHANGED <<teams, dependencies, mode, status, result,
                   selectedTeamId, selectedProjectId, showGlobalView, initialized>>
    /\ GlobalViewEffect

NextCopies ==
    \/ AddTeam
    \/ AddProject
    \/ DuplicateProject
    \/ DuplicateProjectAsLinked
    \/ UpdateProject
    \/ DeleteProject
    \/ DeleteTeam

SpecCopies == InitStore /\ [][NextCopies]_vars

(***************************************************************************)
(* C29.  In every state reachable from the empty store by add team, add    *)
(* project, duplicateProject, duplicateProjectAsLinked, updateProject of   *)
(* effort/value/title, deleteProject and deleteTeam, every project with    *)
(* isLinkedCopy = true has a sourceProjectId that is the id of a project   *)
(* present in the store which is not itself a linked copy; deleting an     *)
(* original or any of its copies removes the original and all of its       *)
(* copies together, and deleting a team turns the copies of its projects   *)
(* held by other teams into standalone projects.                           *)
(***************************************************************************)
CopiesNameStoredOriginal ==
    \A p \in Range(projects) :
        p.isLinkedCopy =>
            \E q \in Range(projects) :
                q.id = p.sourceProjectId /\ ~q.isLinkedCopy

\* The original of a project (the project itself when it is no copy), and
\* the original together with its copies.
OriginalOf(id) ==
    IF StoredProject(projects, id).isLinkedCopy
    THEN StoredProject(projects, id).sourceProjectId ELSE id

FamilyOf(id) ==
    {OriginalOf(id)} \cup
    {p.id : p \in {q \in Range(projects) :
                      q.isLinkedCopy /\ q.sourceProjectId = OriginalOf(id)}}

\* A step that removes a project and no team (deleteProject) removes its
\* original and all the copies of it, and nothing else.
DeletesWholeFamily ==
    (teams' = teams /\ StoredIds(projects) \ StoredIds(projects') # {}) =>
        \E id \in StoredIds(projects) :
            StoredIds(projects') = StoredIds(projects) \ FamilyOf(id)

\* A step that removes a team (deleteTeam) removes its projects, and the
\* copies of these in the other teams stay as standalone projects.
DeletedTeamFreesCopies ==
    \A teamId \in StoredIds(teams) \ StoredIds(teams') :
        /\ StoredIds(projects') = StoredIds(projects) \ TeamProjectIds(projects, teamId)
        /\ \A p \in Range(projects) :
              (/\ p.teamId # teamId
               /\ p.isLinkedCopy
               /\ p.sourceProjectId \in TeamProjectIds(projects, teamId)) =>
                  StoredProject(projects', p.id) =
                      [p EXCEPT !.isLinkedCopy = FALSE,
                                !.sourceProjectId = Undefined]

C29_CopiesHaveStoredOriginal ==
    /\ []CopiesNameStoredOriginal
    /\ [][DeletesWholeFamily /\ DeletedTeamFreesCopies]_vars

\* An original and two copies of it, one of them in the original's team;
\* the team of the other copy is another one.
C29_Witness ==
    \E p \in Range(projects), q \in Range(projects), r \in Range(projects) :
        /\ ~p.isLinkedCopy
        /\ q.isLinkedCopy /\ q.sourceProjectId = p.id /\ q.teamId = p.teamId
        /\ r.isLinkedCopy /\ r.sourceProjectId = p.id /\ r.teamId # p.teamId

(***************************************************************************)
(* C30.  In every mode, every project in selectedProjects has a teamId     *)
(* equal to the id of one of the input teams: a project whose teamId       *)
(* matches no input team is never selected, also in optimized mode where   *)
(* no capacity constraint mentions it.                                     *)
(***************************************************************************)
C30_SelectedBelongToInputTeam ==
    Returned => \A id \in SelectedIds : TeamKnown(InputProject(id).teamId)

\* What holds instead: the two greedy modes, and the optimized mode when
\* it falls back to the greedy planner, select no such project.
C30_GreedySelectedBelongToInputTeam ==
    (Returned /\ status \notin {"GLP_OPT", "GLP_FEAS"}) =>
        \A id \in SelectedIds : TeamKnown(InputProject(id).teamId)

=============================================================================
